---- MODULE Spec2Model ----
(***************************************************************************)
(* A model of the PWA voice-assist bridge: the browser-facing WebSocket    *)
(* server (server/websocket_server.py), the hub-facing Wyoming server      *)
(* (server/wyoming_server.py) and the callback that wires them             *)
(* (server/main.py).  Every action is one run of a task between two        *)
(* suspension points of the asyncio event loop.                            *)
(***************************************************************************)
EXTENDS Integers, Sequences, FiniteSets, TLC

\* ------------------------------------------------------------ universe

\* Browser connections and hub connections that may be accepted, named in the
\* order they are accepted: Earlier holds the pairs <<first, second>>.
Browsers == {"b1", "b2"}
Hubs == {"h1", "h2"}
Earlier == {<<"b1", "b2">>, <<"h1", "h2">>}
InOrder(pc, s) == \A p \in Earlier : p[2] = s => pc[p[1]] # "new"

\* Total number of bytes added to an AudioBuffer, and the most one add brings.
MaxBytes == 6
MaxAdd == 4

\* Sample rates (Hz) and chunk durations (ms) an AudioBuffer is made with.
BufferRates == {1000, 1500, 16000, 22050}
BufferDurations == {1, 2, 30}

\* Total number of things the peers do to connections they have opened:
\* messages and events sent, connections closed, an authentication left to
\* time out.
MaxInputs == 2

\* Python's None, for values that are strings otherwise.
None == "None"

\* A dict with no keys, and dict.get(key, default).
EmptyDict == [k \in {} |-> ""]
Get(d, k, default) == IF k \in DOMAIN d THEN d[k] ELSE default

\* The tokens a configuration may hold and a browser may offer.
ConfiguredTokens == {None, "secret"}
OfferedTokens == {"secret", "wrong"}

\* Payloads of binary frames and of audio-chunk events.
Payloads == {<<7>>, <<8, 9>>}

\* Texts of transcript and synthesize events, and sample rates of audio-start.
Texts == {"hello"}
Rates == {16000}

\* ------------------------------------------------------------ wire values

\* A text frame as the browser sends it: a JSON object, a JSON value that is
\* no object, or text that is no JSON at all.
Object(d) == [form |-> "object", obj |-> d, bytes |-> << >>]
ArrayText == [form |-> "array", obj |-> EmptyDict, bytes |-> << >>]
MalformedText == [form |-> "malformed", obj |-> EmptyDict, bytes |-> << >>]
\* A binary frame as the browser sends it.
Binary(p) == [form |-> "binary", obj |-> EmptyDict, bytes |-> p]
NoMsg == [form |-> "none", obj |-> EmptyDict, bytes |-> << >>]

AuthMessages ==
    {Object([type |-> "auth", token |-> t]) : t \in OfferedTokens}
        \cup {Object([type |-> "auth"]), Object([type |-> "ping"]),
              ArrayText, MalformedText}

ControlMessages ==
    {Object([type |-> "wake_detected", wake_word |-> "hey"]),
     Object([type |-> "wake_detected"]),
     Object([type |-> "ping"]),
     Object([type |-> "status_request"]),
     Object([type |-> "bogus"]),
     Object(EmptyDict),
     ArrayText, MalformedText}

\* json.loads: the parsed dict, or an exception ("ValueError" for text that is
\* no JSON).  A JSON value that is no object parses, and the .get that follows
\* raises AttributeError: isdict tells the two apart.
JsonLoads(m) ==
    [raised |-> m.form \in {"malformed", "binary"}, isdict |-> m.form = "object",
     obj |-> m.obj]

\* json.dumps of a dict, as a text frame to the browser.
JsonDumps(d) == [kind |-> "text", json |-> d]
\* A binary frame to the browser.
BinaryFrame(bytes) == [kind |-> "binary", bytes |-> bytes]

\* Wyoming events as the hub sends them.
HubEvent(type, data, payload) == [type |-> type, data |-> data, payload |-> payload]
NoPayload == << >>

HubEvents ==
    {HubEvent("describe", EmptyDict, NoPayload),
     HubEvent("ping", EmptyDict, NoPayload),
     HubEvent("audio-stop", EmptyDict, NoPayload),
     HubEvent("voice-started", EmptyDict, NoPayload)}
        \cup {HubEvent("transcript", [text |-> t], NoPayload) : t \in Texts}
        \cup {HubEvent("transcript", EmptyDict, NoPayload)}
        \cup {HubEvent("synthesize", [text |-> t], NoPayload) : t \in Texts}
        \cup {HubEvent("audio-start", [rate |-> r, width |-> 2, channels |-> 1], NoPayload) : r \in Rates}
        \cup {HubEvent("audio-start", EmptyDict, NoPayload)}
        \cup {HubEvent("audio-chunk", [rate |-> 22050, width |-> 2, channels |-> 1], p) : p \in Payloads}

\* Wyoming events the bridge writes to a hub session.
RunPipelineEvent ==
    [type |-> "run-pipeline",
     data |-> [start_stage |-> "asr", end_stage |-> "tts", restart_on_end |-> FALSE],
     payload |-> NoPayload]
AudioStartEvent ==
    [type |-> "audio-start",
     data |-> [rate |-> 16000, width |-> 2, channels |-> 1],
     payload |-> NoPayload]
AudioChunkEvent(audio) ==
    [type |-> "audio-chunk",
     data |-> [rate |-> 16000, width |-> 2, channels |-> 1],
     payload |-> audio]
PongEvent == [type |-> "pong", data |-> EmptyDict, payload |-> NoPayload]
PlayedEvent == [type |-> "played", data |-> EmptyDict, payload |-> NoPayload]
InfoEvent ==
    [type |-> "info",
     data |-> [name |-> "PWA Voice Assist", area |-> "Browser", version |-> "1.0.0"],
     payload |-> NoPayload]

\* The client-facing configuration block echoed in status replies.
client_config == [wake_word |-> "hey"]

\* main.py sets ws_server.wyoming_ref before any server starts.
wyoming_ref == TRUE

\* ------------------------------------------------------------ state

VARIABLES
    auth_token,      \* WebSocketServer.auth_token
    event_callback,  \* WyomingServer.event_callback is set
    clients,         \* WebSocketServer.clients
    handlers,        \* WyomingServer.handlers
    bpc,             \* position of each browser connection's handler task
    bopen,           \* the browser's connection is open
    biter,           \* the fan-out loop a browser task is suspended in
    hpc,             \* position of each hub connection's handler task
    hopen,           \* the hub's connection is open
    hev,             \* the event a hub task is bridging
    ready,           \* the event loop's queue of scheduled tasks, oldest first
    wsOut,           \* per browser: the frames sent to it, in order
    hubOut,          \* per hub session: the events written to it, in order
    inputs,          \* number of messages, events, closes and timeouts so far
    ntasks,          \* number of tasks created with asyncio.create_task
    auth,            \* per browser: how its authentication went
    last,            \* per session: its latest input and the registries it found
    bcasts,          \* the broadcasts made so far, each with its recipients
    closeCode,       \* per browser: the code the server closed the connection with
    inflight,        \* the sends that wait for their browser to read
    abuf,            \* an AudioBuffer: its configuration, buffer, queue and consumer
    atrace           \* what the AudioBuffer was given and gave so far

vars == <<auth_token, event_callback, clients, handlers, bpc, bopen, biter,
          hpc, hopen, hev, ready, wsOut, hubOut, inputs, ntasks, auth, last,
          bcasts, closeCode, inflight, abuf, atrace>>

NoIter == [todo |-> {}, cur |-> None, left |-> << >>, per |-> << >>]
NoLast == [n |-> 0, msg |-> NoMsg, snap |-> {}, peers |-> {}, failed |-> FALSE]
NoAuth == [how |-> "none", first |-> NoMsg, ok |-> FALSE, usable |-> FALSE]
NoEvent == HubEvent("none", EmptyDict, NoPayload)

ChunkSizeRounded(sample_rate, chunk_duration_ms) ==
    ((sample_rate * chunk_duration_ms + 500) \div 1000) * 2

\* AudioBuffer.__init__: the chunk size in bytes, whole 16-bit samples.
ChunkSize(sample_rate, chunk_duration_ms) ==
    ((sample_rate * chunk_duration_ms) \div 1000) * 2

AudioBufferInit(sample_rate, chunk_duration_ms) ==
    [sample_rate |-> sample_rate,
     chunk_duration_ms |-> chunk_duration_ms,
     chunk_size |-> ChunkSize(sample_rate, chunk_duration_ms),
     buffer |-> << >>,
     queue |-> << >>,
     getter |-> "idle"]

\* Nothing was added to the buffer, taken from it or cleared yet.
NoTrace == [added |-> 0, emitted |-> << >>, got |-> << >>, cleared |-> FALSE, cleared_at |-> 0]

\* The two servers as constructed, before any connection.
Servers(tokens, callbacks) ==
    /\ auth_token \in tokens
    /\ event_callback \in callbacks
    /\ clients = {}
    /\ handlers = {}
    /\ bpc = [b \in Browsers |-> "new"]
    /\ bopen = [b \in Browsers |-> FALSE]
    /\ biter = [b \in Browsers |-> NoIter]
    /\ hpc = [h \in Hubs |-> "new"]
    /\ hopen = [h \in Hubs |-> FALSE]
    /\ hev = [h \in Hubs |-> NoEvent]
    /\ ready = << >>
    /\ wsOut = [b \in Browsers |-> << >>]
    /\ hubOut = [h \in Hubs |-> << >>]
    /\ inputs = 0
    /\ ntasks = 0
    /\ auth = [b \in Browsers |-> NoAuth]
    /\ last = [s \in Browsers \cup Hubs |-> NoLast]
    /\ bcasts = << >>
    /\ closeCode = [b \in Browsers |-> 0]
    /\ inflight = {}

\* The servers, and an AudioBuffer of the default configuration.
InitWith(tokens, callbacks) ==
    /\ Servers(tokens, callbacks)
    /\ abuf = AudioBufferInit(16000, 30)
    /\ atrace = NoTrace

\* ------------------------------------------------------------ helpers

\* The close code of a rejected connection (policy violation).
PolicyViolation == 1008

TruthyNever(v) == FALSE

\* Python truthiness of a configured value: None and "" are not set.
Truthy(v) == v \notin {None, ""}

\* One frame handed to websocket.send for browser b: it is delivered when the
\* connection is open, and send raises ConnectionClosed when it is not.
SendFrame(out, b, frame, src, n, ok) ==
    [out EXCEPT ![b] = Append(@, [msg |-> frame, src |-> src, n |-> n, ok |-> ok])]

\* One event handed to handler.write_event for hub session h.
WriteEvent(out, h, ev, n, ok) ==
    [out EXCEPT ![h] = Append(@, [ev |-> ev, n |-> n, ok |-> ok])]

\* All orders in which the members of a set may be enumerated.
Orders(S) ==
    {q \in [1..Cardinality(S) -> S] : \A i, j \in 1..Cardinality(S) : i # j => q[i] # q[j]}

\* ------------------------------------------------------------ authentication

AuthCheckAnyToken(token, m) ==
    LET data == JsonLoads(m)
    IN  IF data.raised \/ ~data.isdict THEN "raise"
        ELSE IF Get(data.obj, "type", None) = "auth" THEN "ok"
        ELSE "reject"

AuthCheckSilent(token, m) ==
    LET data == JsonLoads(m)
    IN  IF data.raised \/ ~data.isdict THEN "raise"
        ELSE IF Get(data.obj, "type", None) = "auth"
                /\ Get(data.obj, "token", None) = token THEN "ok"
        ELSE "raise"

\* authenticate, from the message recv returned: "ok" (auth_ok is sent),
\* "reject" (auth_failed is sent) or "raise" (json.loads or .get raised, and
\* the except clause returns False with nothing sent).
AuthCheck(token, m) ==
    LET data == JsonLoads(m)
    IN  IF data.raised \/ ~data.isdict THEN "raise"
        ELSE IF Get(data.obj, "type", None) = "auth"
                /\ Get(data.obj, "token", None) = token THEN "ok"
        ELSE "reject"

\* handler, up to its first suspension: with a token configured the task waits
\* in authenticate for the first message; with none the session is registered.
Accept(b) ==
    /\ bpc[b] = "new"
    /\ InOrder(bpc, b)
    /\ bopen' = [bopen EXCEPT ![b] = TRUE]
    /\ IF Truthy(auth_token)
       THEN /\ bpc' = [bpc EXCEPT ![b] = "auth"]
            /\ UNCHANGED <<clients, auth>>
       ELSE /\ bpc' = [bpc EXCEPT ![b] = "loop"]
            /\ clients' = clients \cup {b}
            /\ auth' = [auth EXCEPT ![b] = [how |-> "off", first |-> NoMsg, ok |-> TRUE, usable |-> TRUE]]
    /\ UNCHANGED <<abuf, atrace, inflight, auth_token, event_callback, handlers, biter, hpc, hopen, hev,
                   ready, wsOut, hubOut, inputs, ntasks, last, bcasts, closeCode>>

\* authenticate resumes with the first message m.  gone: the browser closed
\* its end right after sending m, so the reply cannot be sent.
AuthRecv(b, m, gone) ==
    /\ bpc[b] = "auth"
    /\ bopen[b]
    /\ inputs < MaxInputs
    /\ inputs' = inputs + 1
    /\ bopen' = [bopen EXCEPT ![b] = ~gone]
    /\ LET r == AuthCheck(auth_token, m)
           reply == JsonDumps([type |-> IF r = "ok" THEN "auth_ok" ELSE "auth_failed"])
           success == r = "ok" /\ ~gone
       IN  /\ wsOut' = IF r = "raise" THEN wsOut
                       ELSE SendFrame(wsOut, b, reply, "in", inputs', ~gone)
           /\ bpc' = [bpc EXCEPT ![b] = IF success THEN "authed" ELSE "failed"]
           /\ auth' = [auth EXCEPT ![b] = [how |-> "message", first |-> m, ok |-> success,
                                           usable |-> ~gone]]
    /\ UNCHANGED <<abuf, atrace, inflight, auth_token, event_callback, clients, handlers, biter, hpc,
                   hopen, hev, ready, hubOut, ntasks, last, bcasts, closeCode>>

\* asyncio.wait_for gives up after 5 seconds: TimeoutError, nothing is sent.
AuthTimeout(b) ==
    /\ bpc[b] = "auth"
    /\ inputs < MaxInputs
    /\ inputs' = inputs + 1
    /\ bopen[b]
    /\ bpc' = [bpc EXCEPT ![b] = "failed"]
    /\ auth' = [auth EXCEPT ![b] = [how |-> "timeout", first |-> NoMsg, ok |-> FALSE,
                                       usable |-> TRUE]]
    /\ UNCHANGED <<abuf, atrace, inflight, auth_token, event_callback, clients, handlers, bopen, biter,
                   hpc, hopen, hev, ready, wsOut, hubOut, ntasks, last,
                   bcasts, closeCode>>

\* recv raises ConnectionClosed: the browser left before sending anything.
AuthClosed(b) ==
    /\ bpc[b] = "auth"
    /\ ~bopen[b]
    /\ bpc' = [bpc EXCEPT ![b] = "failed"]
    /\ auth' = [auth EXCEPT ![b] = [how |-> "closed", first |-> NoMsg, ok |-> FALSE,
                                       usable |-> FALSE]]
    /\ UNCHANGED <<abuf, atrace, inflight, auth_token, event_callback, clients, handlers, bopen, biter,
                   hpc, hopen, hev, ready, wsOut, hubOut, inputs, ntasks, last,
                   bcasts, closeCode>>

\* handler after authenticate returned True: register_client.
RegisterClient(b) ==
    /\ bpc[b] = "authed"
    /\ clients' = clients \cup {b}
    /\ bpc' = [bpc EXCEPT ![b] = "loop"]
    /\ UNCHANGED <<abuf, atrace, inflight, auth_token, event_callback, handlers, bopen, biter, hpc, hopen,
                   hev, ready, wsOut, hubOut, inputs, ntasks, auth, last, bcasts, closeCode>>

\* handler after authenticate returned False: close(code=1008) and return.
CloseRejected(b) ==
    /\ bpc[b] = "failed"
    /\ bpc' = [bpc EXCEPT ![b] = "rejected"]
    /\ bopen' = [bopen EXCEPT ![b] = FALSE]
    /\ closeCode' = [closeCode EXCEPT ![b] = PolicyViolation]
    /\ UNCHANGED <<abuf, atrace, inflight, auth_token, event_callback, clients, handlers, biter, hpc,
                   hopen, hev, ready, wsOut, hubOut, inputs, ntasks, auth, last,
                   bcasts>>

\* The browser closes its end of the connection.
PeerClose(b) ==
    /\ bpc[b] \in {"auth", "authed", "loop", "writing"}
    /\ inputs < MaxInputs
    /\ inputs' = inputs + 1
    /\ bopen[b]
    /\ bopen' = [bopen EXCEPT ![b] = FALSE]
    /\ UNCHANGED <<abuf, atrace, inflight, auth_token, event_callback, clients, handlers, bpc, biter, hpc,
                   hopen, hev, ready, wsOut, hubOut, ntasks, auth, last,
                   bcasts, closeCode>>

\* The message iterator raises ConnectionClosed: finally unregister_client.
BrowserExit(b) ==
    /\ bpc[b] = "loop"
    /\ ~bopen[b]
    /\ clients' = clients \ {b}
    /\ bpc' = [bpc EXCEPT ![b] = "done"]
    /\ UNCHANGED <<abuf, atrace, inflight, auth_token, event_callback, handlers, bopen, biter, hpc, hopen,
                   hev, ready, wsOut, hubOut, inputs, ntasks, auth, last, bcasts, closeCode>>

\* ------------------------------------------------------------ browser to hub

TriggerEventsSwapped == <<AudioStartEvent, RunPipelineEvent>>

\* What trigger_wake_word writes to each hub session, in order.
TriggerEvents == <<RunPipelineEvent, AudioStartEvent>>

\* What send_audio writes to each hub session.
AudioEvents(audio_data) == <<AudioChunkEvent(audio_data)>>

SnapshotOpen(hs) == {h \in hs : hopen[h]}

\* list(self.handlers): the sessions a fan-out loop goes through.
Snapshot(hs) == hs

FanNextAny(it) == it.todo \cup (IF it.cur # None THEN {it.cur} ELSE {})

\* The sessions the loop may write to next: the one whose events are not all
\* written yet, or any session of the list not reached yet.
FanNext(it) == IF it.cur # None THEN {it.cur} ELSE it.todo
FanDone(it) == it.cur = None /\ it.todo = {}

FanStepAbort(it, h, out, n) ==
    LET ok == hopen[h]
        evs == IF it.cur = None THEN it.per ELSE it.left
        more == ok /\ Len(evs) > 1
    IN  [it |-> [it EXCEPT !.todo = IF ok THEN @ \ {h} ELSE {},
                           !.cur = IF more THEN h ELSE None,
                           !.left = IF more THEN Tail(evs) ELSE << >>],
         out |-> WriteEvent(out, h, Head(evs), n, ok),
         failed |-> ~ok]

\* One write of a fan-out loop (for handler in list(self.handlers): try: await
\* handler.write_event(...)), to session h.  A write that raises is logged and
\* the loop goes on with the next session.
FanStep(it, h, out, n) ==
    LET ok == hopen[h]
        evs == IF it.cur = None THEN it.per ELSE it.left
        more == ok /\ Len(evs) > 1
    IN  [it |-> [it EXCEPT !.todo = @ \ {h},
                           !.cur = IF more THEN h ELSE None,
                           !.left = IF more THEN Tail(evs) ELSE << >>],
         out |-> WriteEvent(out, h, Head(evs), n, ok),
         failed |-> ~ok]

\* trigger_wake_word and send_audio from their call to their first suspension:
\* nothing when no hub session is registered, else the first write.
StartFan(b, per, m, n) ==
    LET snap == Snapshot(handlers)
        it0 == [todo |-> snap, cur |-> None, left |-> << >>, per |-> per]
    IN  IF handlers = {}
        THEN /\ last' = [last EXCEPT ![b] = [n |-> n, msg |-> m, snap |-> {},
                                             peers |-> clients, failed |-> FALSE]]
             /\ UNCHANGED <<hubOut, biter, bpc>>
        ELSE \E h \in snap :
                LET r == FanStep(it0, h, hubOut, n)
                IN  /\ hubOut' = r.out
                    /\ biter' = [biter EXCEPT ![b] = IF FanDone(r.it) THEN NoIter ELSE r.it]
                    /\ bpc' = [bpc EXCEPT ![b] = IF FanDone(r.it) THEN "loop" ELSE "writing"]
                    /\ last' = [last EXCEPT ![b] = [n |-> n, msg |-> m, snap |-> handlers,
                                                    peers |-> clients, failed |-> r.failed]]

\* The fan-out loop resumes after a write and makes its next one.
BrowserWrite(b) ==
    /\ bpc[b] = "writing"
    /\ \E h \in FanNext(biter[b]) :
          LET r == FanStep(biter[b], h, hubOut, last[b].n)
          IN  /\ hubOut' = r.out
              /\ biter' = [biter EXCEPT ![b] = IF FanDone(r.it) THEN NoIter ELSE r.it]
              /\ bpc' = [bpc EXCEPT ![b] = IF FanDone(r.it) THEN "loop" ELSE "writing"]
              /\ last' = [last EXCEPT ![b].failed = @ \/ r.failed]
    /\ UNCHANGED <<abuf, atrace, inflight, auth_token, event_callback, clients, handlers, bopen, hpc,
                   hopen, hev, ready, wsOut, inputs, ntasks, auth, bcasts, closeCode>>

RecvBinaryEarly(b, p) ==
    /\ bpc[b] \in {"loop", "writing"}
    /\ bopen[b]
    /\ inputs < MaxInputs
    /\ inputs' = inputs + 1
    /\ StartFan(b, AudioEvents(p), Binary(p), inputs')
    /\ UNCHANGED <<abuf, atrace, inflight, auth_token, event_callback, clients, handlers, bopen, hpc, hopen,
                   hev, ready, wsOut, ntasks, auth, bcasts, closeCode>>

\* handler receives a binary frame: send_audio.
RecvBinary(b, p) ==
    /\ bpc[b] = "loop"
    /\ bopen[b]
    /\ inputs < MaxInputs
    /\ inputs' = inputs + 1
    /\ IF wyoming_ref
       THEN StartFan(b, AudioEvents(p), Binary(p), inputs')
       ELSE /\ last' = [last EXCEPT ![b] = [n |-> inputs', msg |-> Binary(p), snap |-> {},
                                            peers |-> clients, failed |-> FALSE]]
            /\ UNCHANGED <<hubOut, biter, bpc>>
    /\ UNCHANGED <<abuf, atrace, inflight, auth_token, event_callback, clients, handlers, bopen, hpc, hopen,
                   hev, ready, wsOut, ntasks, auth, bcasts, closeCode>>

StatusReplyLinked(cl, hs) ==
    [type |-> "status",
     clients |-> Cardinality(cl),
     ha_connected |-> wyoming_ref,
     config |-> client_config]

\* The reply to status_request.
StatusReply(cl, hs) ==
    [type |-> "status",
     clients |-> Cardinality(cl),
     ha_connected |-> (wyoming_ref /\ Cardinality(hs) > 0),
     config |-> client_config]

ControlTypeDefaultPing(m) ==
    LET data == JsonLoads(m)
    IN  IF data.raised \/ ~data.isdict THEN None ELSE Get(data.obj, "type", "ping")

\* The type handle_control_message dispatches on; None when json.loads or
\* .get raised (the except clause logs and returns).
ControlType(m) ==
    LET data == JsonLoads(m)
    IN  IF data.raised \/ ~data.isdict THEN None ELSE Get(data.obj, "type", None)

\* handler receives a text frame: handle_control_message.
RecvControl(b, m, gone) ==
    /\ bpc[b] = "loop"
    /\ bopen[b]
    /\ inputs < MaxInputs
    /\ inputs' = inputs + 1
    /\ bopen' = [bopen EXCEPT ![b] = ~gone]
    /\ LET t == ControlType(m)
           seen == [n |-> inputs', msg |-> m, snap |-> handlers, peers |-> clients,
                    failed |-> FALSE]
       IN  CASE t = "wake_detected" /\ wyoming_ref ->
                  /\ StartFan(b, TriggerEvents, m, inputs')
                  /\ UNCHANGED wsOut
             [] t = "ping" ->
                  /\ wsOut' = SendFrame(wsOut, b, JsonDumps([type |-> "pong"]), "in",
                                        inputs', ~gone)
                  /\ last' = [last EXCEPT ![b] = seen]
                  /\ UNCHANGED <<hubOut, biter, bpc>>
             [] t = "status_request" ->
                  /\ wsOut' = SendFrame(wsOut, b, JsonDumps(StatusReply(clients, handlers)),
                                        "in", inputs', ~gone)
                  /\ last' = [last EXCEPT ![b] = seen]
                  /\ UNCHANGED <<hubOut, biter, bpc>>
             [] OTHER ->
                  /\ last' = [last EXCEPT ![b] = seen]
                  /\ UNCHANGED <<wsOut, hubOut, biter, bpc>>
    /\ UNCHANGED <<abuf, atrace, inflight, auth_token, event_callback, clients, handlers, hpc, hopen, hev,
                   ready, ntasks, auth, bcasts, closeCode>>

\* ------------------------------------------------------------ hub to browser

\* handle_external_event: whether the bridge callback is called for the event,
\* and with what (a dict for broadcast_json, bytes with is_binary=True).
NoCall == [call |-> FALSE, is_binary |-> FALSE, message |-> EmptyDict]
JsonCall(d) == [call |-> TRUE, is_binary |-> FALSE, message |-> d]
BinaryCall(bytes) == [call |-> TRUE, is_binary |-> TRUE, message |-> bytes]

TranslateAsStop(event) ==
    JsonCall([type |-> "voice_event", event_type |-> 2, data |-> EmptyDict])

TranslateUnknown(event) ==
    IF event.type \in {"transcript", "synthesize", "audio-start", "audio-chunk", "audio-stop"}
    THEN TranslateAsStop(event)
    ELSE JsonCall([type |-> "voice_event", event_type |-> 0, data |-> event.data])

Translate(event) ==
    CASE event.type = "transcript" ->
            JsonCall([type |-> "voice_event", event_type |-> 4,
                      data |-> [text |-> Get(event.data, "text", "")]])
      [] event.type = "synthesize" ->
            JsonCall([type |-> "voice_event", event_type |-> 7,
                      data |-> [text |-> Get(event.data, "text", "")]])
      [] event.type = "audio-start" ->
            JsonCall([type |-> "config_audio", rate |-> Get(event.data, "rate", 22050)])
      [] event.type = "audio-chunk" ->
            BinaryCall(event.payload)
      [] event.type = "audio-stop" ->
            JsonCall([type |-> "voice_event", event_type |-> 2, data |-> EmptyDict])
      [] OTHER -> NoCall

\* bridge_callback: the frame broadcast or broadcast_json sends to each client.
BridgeFrame(message, is_binary) ==
    IF is_binary THEN BinaryFrame(message) ELSE JsonDumps(message)

AllAccepted(cl) == {b \in Browsers : bpc[b] # "new"}

\* The clients broadcast and broadcast_json create a send for: self.clients,
\* and nothing is done when it is empty.
Recipients(cl) == cl

SendsUntilClosed(order, frame, caller, src, n) ==
    LET closed == {i \in 1..Len(order) : ~bopen[order[i]]}
        stop == IF closed = {} THEN Len(order)
                ELSE CHOOSE i \in closed : \A j \in closed : i <= j
    IN  [i \in 1..stop |->
            [kind |-> "send", to |-> order[i], msg |-> frame, caller |-> caller,
             src |-> src, n |-> n]]

\* asyncio.gather over the sends: one scheduled send per recipient, in the order
\* the set is enumerated.
Sends(order, frame, caller, src, n) ==
    [i \in 1..Len(order) |->
        [kind |-> "send", to |-> order[i], msg |-> frame, caller |-> caller,
         src |-> src, n |-> n]]

ConnectedAlways(hs) == TRUE

\* The message of the ha_status notification.
HaStatus(connected) == [type |-> "ha_status", connected |-> connected]
\* register_handler always reports True; unregister_handler reports whether a
\* session is left.
ConnectedAfterAdd(hs) == TRUE
ConnectedAfterRemove(hs) == Cardinality(hs) > 0

\* asyncio.create_task(self.event_callback(message)).
StatusTask(message, id) ==
    [kind |-> "task", to |-> None, msg |-> message, caller |-> "task",
     src |-> "task", n |-> id]

\* A gathered send of hub session h's broadcast has not settled yet: it has not
\* run, or it waits for its browser to read.
Pending(h) ==
    \/ \E i \in 1..Len(ready) : ready[i].kind = "send" /\ ready[i].caller = h
    \/ \E s \in inflight : s.caller = h

\* _make_handler: the session is constructed, which registers it.
HubConnect(h) ==
    /\ hpc[h] = "new"
    /\ InOrder(hpc, h)
    /\ hopen' = [hopen EXCEPT ![h] = TRUE]
    /\ hpc' = [hpc EXCEPT ![h] = "run"]
    /\ handlers' = handlers \cup {h}
    /\ IF event_callback
       THEN /\ ready' = Append(ready, StatusTask(HaStatus(ConnectedAfterAdd(handlers')),
                                                 ntasks + 1))
            /\ ntasks' = ntasks + 1
       ELSE UNCHANGED <<ready, ntasks>>
    /\ UNCHANGED <<abuf, atrace, inflight, auth_token, event_callback, clients, bpc, bopen, biter, hev,
                   wsOut, hubOut, inputs, auth, last, bcasts, closeCode>>

UnregisterSilent(h, queue) ==
    /\ handlers' = handlers \ {h}
    /\ hpc' = [hpc EXCEPT ![h] = "done"]
    /\ ready' = queue
    /\ ntasks' = ntasks

\* disconnect: unregister_handler, then the session's task is over.
Unregister(h, queue) ==
    /\ handlers' = handlers \ {h}
    /\ hpc' = [hpc EXCEPT ![h] = "done"]
    /\ IF event_callback
       THEN /\ ready' = Append(queue, StatusTask(HaStatus(ConnectedAfterRemove(handlers')),
                                                 ntasks + 1))
            /\ ntasks' = ntasks + 1
       ELSE /\ ready' = queue
            /\ ntasks' = ntasks

ReplyTwice(h, e, n, ok) ==
    /\ hubOut' = WriteEvent(WriteEvent(hubOut, h, e, n, ok), h, e, n, ok)
    /\ IF ok
       THEN /\ hpc' = [hpc EXCEPT ![h] = "run"]
            /\ UNCHANGED <<handlers, ready, ntasks>>
       ELSE Unregister(h, ready)

\* handle_event writes event e to its own session and returns True; a write
\* that raises ends the task, whose finally clause disconnects.
Reply(h, e, n, ok) ==
    /\ hubOut' = WriteEvent(hubOut, h, e, n, ok)
    /\ IF ok
       THEN /\ hpc' = [hpc EXCEPT ![h] = "run"]
            /\ UNCHANGED <<handlers, ready, ntasks>>
       ELSE Unregister(h, ready)

AcknowledgeIfBridged(h, event, n, ok) ==
    IF event.type = "audio-stop" /\ event_callback
    THEN Reply(h, PlayedEvent, n, ok)
    ELSE /\ hpc' = [hpc EXCEPT ![h] = "run"]
         /\ UNCHANGED <<hubOut, handlers, ready, ntasks>>

\* handle_event after the bridging: audio-stop is acknowledged with played.
Acknowledge(h, event, n, ok) ==
    IF event.type = "audio-stop"
    THEN Reply(h, PlayedEvent, n, ok)
    ELSE /\ hpc' = [hpc EXCEPT ![h] = "run"]
         /\ UNCHANGED <<hubOut, handlers, ready, ntasks>>

\* The session's task reads an event: handle_event up to its first suspension.
\* gone: the hub closed its end right after sending the event.
HubReceive(h, event, gone) ==
    /\ hpc[h] = "run"
    /\ hopen[h]
    /\ inputs < MaxInputs
    /\ inputs' = inputs + 1
    /\ hopen' = [hopen EXCEPT ![h] = ~gone]
    /\ last' = [last EXCEPT ![h] = [n |-> inputs', msg |-> NoMsg, snap |-> handlers,
                                    peers |-> clients, failed |-> FALSE]]
    /\ hev' = [hev EXCEPT ![h] = event]
    /\ LET tr == Translate(event)
           frame == BridgeFrame(tr.message, tr.is_binary)
           bridged == event_callback /\ tr.call
       IN  CASE event.type = "describe" ->
                  /\ Reply(h, InfoEvent, inputs', ~gone)
                  /\ UNCHANGED bcasts
             [] event.type = "ping" ->
                  /\ Reply(h, PongEvent, inputs', ~gone)
                  /\ UNCHANGED bcasts
             [] OTHER ->
                  /\ bcasts' = IF bridged
                               THEN Append(bcasts, [src |-> "in", n |-> inputs',
                                                    msg |-> frame, to |-> clients])
                               ELSE bcasts
                  /\ IF bridged /\ Recipients(clients) # {}
                     THEN /\ \E order \in Orders(Recipients(clients)) :
                                ready' = ready \o Sends(order, frame, h, "in", inputs')
                          /\ hpc' = [hpc EXCEPT ![h] = "bridge"]
                          /\ UNCHANGED <<hubOut, handlers, ntasks>>
                     ELSE Acknowledge(h, event, inputs', ~gone)
    /\ UNCHANGED <<abuf, atrace, inflight, auth_token, event_callback, clients, bpc, bopen, biter, wsOut,
                   auth, closeCode>>

\* gather returned: every send of the broadcast has settled.
HubBridged(h) ==
    /\ hpc[h] = "bridge"
    /\ ~Pending(h)
    /\ Acknowledge(h, hev[h], last[h].n, hopen[h])
    /\ UNCHANGED <<abuf, atrace, inflight, auth_token, event_callback, clients, bpc, bopen, biter, hopen,
                   hev, wsOut, inputs, auth, last, bcasts, closeCode>>

\* The hub closes its end of the connection.
HubClose(h) ==
    /\ hpc[h] \in {"run", "bridge"}
    /\ inputs < MaxInputs
    /\ inputs' = inputs + 1
    /\ hopen[h]
    /\ hopen' = [hopen EXCEPT ![h] = FALSE]
    /\ UNCHANGED <<abuf, atrace, inflight, auth_token, event_callback, clients, handlers, bpc, bopen, biter,
                   hpc, hev, ready, wsOut, hubOut, ntasks, auth, last,
                   bcasts, closeCode>>

\* The session's task reads end of stream: disconnect.
HubExit(h) ==
    /\ hpc[h] = "run"
    /\ ~hopen[h]
    /\ Unregister(h, ready)
    /\ UNCHANGED <<abuf, atrace, inflight, auth_token, event_callback, clients, bpc, bopen, biter, hopen,
                   hev, wsOut, hubOut, inputs, auth, last, bcasts, closeCode>>

\* ------------------------------------------------------------ event loop

RunTaskNewest ==
    /\ \E k \in 1..Len(ready) :
          /\ ready[k].kind = "task"
          /\ \A j \in (k + 1)..Len(ready) : ready[j].kind # "task"
          /\ LET t == ready[k]
                 rest == SubSeq(ready, 1, k - 1) \o SubSeq(ready, k + 1, Len(ready))
                 frame == BridgeFrame(t.msg, FALSE)
             IN  /\ bcasts' = Append(bcasts, [src |-> "task", n |-> t.n, msg |-> frame,
                                               to |-> clients])
                 /\ IF Recipients(clients) # {}
                    THEN \E order \in Orders(Recipients(clients)) :
                            ready' = rest \o Sends(order, frame, "task", "task", t.n)
                    ELSE ready' = rest
    /\ UNCHANGED <<abuf, atrace, inflight, auth_token, event_callback, clients, handlers, bpc, bopen, biter,
                   hpc, hopen, hev, wsOut, hubOut, inputs, ntasks, auth, last,
                   closeCode>>

\* A task made by create_task starts: bridge_callback, broadcast_json.
RunTask ==
    /\ ready # << >>
    /\ Head(ready).kind = "task"
    /\ LET t == Head(ready)
           frame == BridgeFrame(t.msg, FALSE)
       IN  /\ bcasts' = Append(bcasts, [src |-> "task", n |-> t.n, msg |-> frame,
                                         to |-> clients])
           /\ IF Recipients(clients) # {}
              THEN \E order \in Orders(Recipients(clients)) :
                      ready' = Tail(ready) \o Sends(order, frame, "task", "task", t.n)
              ELSE ready' = Tail(ready)
    /\ UNCHANGED <<abuf, atrace, inflight, auth_token, event_callback, clients, handlers, bpc, bopen, biter,
                   hpc, hopen, hev, wsOut, hubOut, inputs, ntasks, auth, last,
                   closeCode>>

\* A gathered client.send(payload) runs.
RunSend ==
    /\ ready # << >>
    /\ Head(ready).kind = "send"
    /\ LET s == Head(ready)
       IN  wsOut' = SendFrame(wsOut, s.to, s.msg, s.src, s.n, bopen[s.to])
    /\ ready' = Tail(ready)
    /\ UNCHANGED <<abuf, atrace, inflight, auth_token, event_callback, clients, handlers, bpc, bopen, biter,
                   hpc, hopen, hev, hubOut, inputs, ntasks, auth, last, bcasts, closeCode>>

\* A gathered client.send(payload) runs, writes its frame and suspends: the
\* browser does not read, the write buffer is full and send waits in drain.
SendBlocks ==
    /\ ready # << >>
    /\ Head(ready).kind = "send"
    /\ bopen[Head(ready).to]
    /\ LET s == Head(ready)
       IN  /\ wsOut' = SendFrame(wsOut, s.to, s.msg, s.src, s.n, TRUE)
           /\ inflight' = inflight \cup {s}
    /\ ready' = Tail(ready)
    /\ UNCHANGED <<abuf, atrace, auth_token, event_callback, clients, handlers, bpc,
                   bopen, biter, hpc, hopen, hev, hubOut, inputs, ntasks, auth, last,
                   bcasts, closeCode>>

\* A send that waited in drain settles: it returns when the browser has read,
\* and raises ConnectionClosed when the connection was lost meanwhile.
SendDrains(s) ==
    /\ s \in inflight
    /\ inflight' = inflight \ {s}
    /\ wsOut' = IF bopen[s.to] THEN wsOut
                ELSE [wsOut EXCEPT ![s.to] =
                        [i \in DOMAIN @ |->
                            IF @[i].src = s.src /\ @[i].n = s.n
                            THEN [@[i] EXCEPT !.ok = FALSE] ELSE @[i]]]
    /\ UNCHANGED <<abuf, atrace, auth_token, event_callback, clients, handlers, bpc,
                   bopen, biter, hpc, hopen, hev, ready, hubOut, inputs, ntasks, auth,
                   last, bcasts, closeCode>>

\* ------------------------------------------------------------ audio buffer

\* The variables of the two servers.
servers == <<auth_token, event_callback, clients, handlers, bpc, bopen, biter,
             hpc, hopen, hev, ready, wsOut, hubOut, inputs, ntasks, auth, last,
             bcasts, closeCode, inflight>>

RECURSIVE RechunkOnce(_, _, _)
RechunkOnce(buffer, queue, chunk_size) ==
    IF Len(buffer) >= chunk_size
    THEN [buffer |-> SubSeq(buffer, chunk_size + 1, Len(buffer)),
          queue |-> Append(queue, SubSeq(buffer, 1, chunk_size))]
    ELSE [buffer |-> buffer, queue |-> queue]

\* The loop of add: while the buffer holds chunk_size bytes, its first
\* chunk_size bytes are popped and put on the queue as one chunk.
RECURSIVE Rechunk(_, _, _)
Rechunk(buffer, queue, chunk_size) ==
    IF Len(buffer) >= chunk_size
    THEN Rechunk(SubSeq(buffer, chunk_size + 1, Len(buffer)),
                 Append(queue, SubSeq(buffer, 1, chunk_size)), chunk_size)
    ELSE [buffer |-> buffer, queue |-> queue]

\* add(audio_data).  The bytes are told apart by their position in all that
\* was ever added: the k bytes of this call are added+1 .. added+k.  A put on
\* the queue wakes the consumer that waits in get.
Add(k) ==
    /\ atrace.added + k <= MaxBytes
    /\ LET audio_data == [i \in 1..k |-> atrace.added + i]
           r == Rechunk(abuf.buffer \o audio_data, abuf.queue, abuf.chunk_size)
           put == SubSeq(r.queue, Len(abuf.queue) + 1, Len(r.queue))
       IN  /\ abuf' = [abuf EXCEPT !.buffer = r.buffer,
                                   !.queue = r.queue,
                                   !.getter = IF @ = "waiting" /\ put # << >>
                                              THEN "woken" ELSE @]
           /\ atrace' = [atrace EXCEPT !.added = @ + k, !.emitted = @ \o put]
    /\ UNCHANGED servers

TakeNewest(queue) ==
    [chunk |-> queue[Len(queue)], rest |-> SubSeq(queue, 1, Len(queue) - 1)]

\* Queue.get_nowait: the oldest chunk of the queue.
Take(queue) == [chunk |-> Head(queue), rest |-> Tail(queue)]

\* get_chunk is called: the oldest chunk is returned at once, or the consumer
\* suspends in Queue.get when none is queued.
GetCall ==
    /\ abuf.getter = "idle"
    /\ IF abuf.queue # << >>
       THEN /\ abuf' = [abuf EXCEPT !.queue = Take(abuf.queue).rest]
            /\ atrace' = [atrace EXCEPT !.got = Append(@, Take(abuf.queue).chunk)]
       ELSE /\ abuf' = [abuf EXCEPT !.getter = "waiting"]
            /\ UNCHANGED atrace
    /\ UNCHANGED servers

\* The consumer woken by a put resumes in Queue.get: it returns the oldest
\* chunk, or waits again when the queue was emptied meanwhile.
GetResume ==
    /\ abuf.getter = "woken"
    /\ IF abuf.queue # << >>
       THEN /\ abuf' = [abuf EXCEPT !.queue = Take(abuf.queue).rest, !.getter = "idle"]
            /\ atrace' = [atrace EXCEPT !.got = Append(@, Take(abuf.queue).chunk)]
       ELSE /\ abuf' = [abuf EXCEPT !.getter = "waiting"]
            /\ UNCHANGED atrace
    /\ UNCHANGED servers

\* clear(): the buffer is emptied and the queue is drained.
Clear ==
    /\ abuf' = [abuf EXCEPT !.buffer = << >>, !.queue = << >>]
    /\ atrace' = [atrace EXCEPT !.cleared = TRUE, !.cleared_at = atrace.added]
    /\ UNCHANGED servers

\* ------------------------------------------------------------ specifications

\* The peer may close right after a message that is answered at once: the
\* answer is then sent to a closed connection.
AuthGone(m) == IF AuthCheck("secret", m) = "raise" THEN {FALSE} ELSE BOOLEAN
ControlGone(m) == IF ControlType(m) \in {"ping", "status_request"} THEN BOOLEAN ELSE {FALSE}
HubGone(e) == IF e.type \in {"describe", "ping", "audio-stop"} THEN BOOLEAN ELSE {FALSE}

Connections(B) ==
    \/ \E b \in B : Accept(b)
    \/ \E b \in B : PeerClose(b)
    \/ \E b \in B : BrowserExit(b)

Authentication(B, A) ==
    \/ \E b \in B, m \in A : \E gone \in AuthGone(m) : AuthRecv(b, m, gone)
    \/ \E b \in B : AuthTimeout(b)
    \/ \E b \in B : AuthClosed(b)
    \/ \E b \in B : RegisterClient(b)
    \/ \E b \in B : CloseRejected(b)

Control(B, M) ==
    \E b \in B, m \in M : \E gone \in ControlGone(m) : RecvControl(b, m, gone)

FanOut(B, P) ==
    \/ \E b \in B, p \in P : RecvBinary(b, p)
    \/ \E b \in B : BrowserWrite(b)

HubSessions(H) ==
    \/ \E h \in H : HubConnect(h)
    \/ \E h \in H : HubClose(h)
    \/ \E h \in H : HubExit(h)

HubInput(H, E) ==
    \E h \in H, e \in E : \E gone \in HubGone(e) : HubReceive(h, e, gone)

Gather(H) ==
    \E h \in H : HubBridged(h)

EventLoop ==
    \/ RunTask
    \/ RunSend

\* The state main() leaves the two servers in before it starts them: the
\* bridge callback is set; the configuration may hold a token.
Init == InitWith({None}, {TRUE})
InitAuth == InitWith(ConfiguredTokens, {TRUE})
\* A WyomingServer started with or without a callback.
InitAnyWiring == InitWith({None}, {TRUE, FALSE})

\* One browser that detects wake words and streams audio, two hub sessions.
WakeMessages ==
    {Object([type |-> "wake_detected", wake_word |-> "hey"]),
     Object([type |-> "status_request"])}
Next ==
    \/ Connections({"b1"})
    \/ Control({"b1"}, WakeMessages)
    \/ FanOut({"b1"}, {<<7>>})
    \/ HubSessions(Hubs)
    \/ EventLoop

Spec == Init /\ [][Next]_vars

\* Two browsers that ask for the status, one hub session that sends events of
\* every type that handle_external_event is called for.
StatusMessages == {Object([type |-> "status_request"])}
BridgedEvents == {e \in HubEvents : e.type \notin {"describe", "ping"}}
NextBridge ==
    \/ Connections(Browsers)
    \/ Control(Browsers, StatusMessages)
    \/ HubSessions({"h1"})
    \/ HubInput({"h1"}, BridgedEvents)
    \/ Gather({"h1"})
    \/ EventLoop

SpecBridge == Init /\ [][NextBridge]_vars

\* Two browsers that authenticate, or not, where a token may be configured,
\* and one hub session.
PingMessages == {Object([type |-> "ping"])}
NextAuth ==
    \/ Connections(Browsers)
    \/ Authentication(Browsers, AuthMessages)
    \/ Control(Browsers, PingMessages)
    \/ HubSessions({"h1"})
    \/ EventLoop

SpecAuth == InitAuth /\ [][NextAuth]_vars

\* Two hub sessions that send audio-stop and other events, one browser, the
\* bridge callback set or not.
AckEvents ==
    {HubEvent("audio-stop", EmptyDict, NoPayload),
     HubEvent("transcript", [text |-> "hello"], NoPayload),
     HubEvent("ping", EmptyDict, NoPayload)}
NextAck ==
    \/ Connections({"b1"})
    \/ HubSessions(Hubs)
    \/ HubInput(Hubs, AckEvents)
    \/ Gather(Hubs)
    \/ EventLoop

SpecAck == InitAnyWiring /\ [][NextAck]_vars

\* A browser that may stop reading, one hub session that sends audio-stop and
\* other events.  The server's own steps are taken when they can be; what the
\* peers do, and when a browser that is still connected reads, is up to them.
Stall ==
    \/ SendBlocks
    \/ \E s \in inflight : SendDrains(s)
NextStall ==
    \/ Connections({"b1"})
    \/ HubSessions({"h1"})
    \/ HubInput({"h1"}, AckEvents)
    \/ Gather({"h1"})
    \/ EventLoop
    \/ Stall
Scheduling ==
    /\ WF_vars(RunTask)
    /\ WF_vars(RunSend)
    /\ WF_vars(\E s \in inflight : ~bopen[s.to] /\ SendDrains(s))
    /\ \A h \in Hubs : WF_vars(HubBridged(h)) /\ WF_vars(HubExit(h))
    /\ \A b \in Browsers : WF_vars(BrowserExit(b)) /\ WF_vars(BrowserWrite(b))

SpecStall == Init /\ [][NextStall]_vars /\ Scheduling

\* The browser and the hub sessions of Spec, with the server's own steps taken
\* when they can be and every send settling at once.
SpecLive == Init /\ [][Next]_vars /\ Scheduling

\* Two browsers that stream audio, each its own bytes, one of which also
\* detects wake words, and one hub session.
OwnAudio(b) == IF b = "b1" THEN <<1>> ELSE <<2>>
WakeOnly == {Object([type |-> "wake_detected", wake_word |-> "hey"])}
NextOrder ==
    \/ Connections(Browsers)
    \/ Control({"b1"}, WakeOnly)
    \/ \E b \in Browsers : RecvBinary(b, OwnAudio(b))
    \/ \E b \in Browsers : BrowserWrite(b)
    \/ HubSessions({"h1"})
    \/ EventLoop

SpecOrder == Init /\ [][NextOrder]_vars

\* One browser that sends text that is no JSON, JSON that is no object,
\* objects without a type or of an unknown type, and pings; one hub session.
StrayMessages ==
    {MalformedText, ArrayText, Object(EmptyDict), Object([type |-> "bogus"]),
     Object([type |-> "ping"])}
NextStray ==
    \/ Connections({"b1"})
    \/ Control({"b1"}, StrayMessages)
    \/ HubSessions({"h1"})
    \/ EventLoop

SpecStray == Init /\ [][NextStray]_vars

\* Two hub sessions that probe the satellite with Describe and Ping, and one
\* browser.
ProbeEvents ==
    {HubEvent("describe", EmptyDict, NoPayload), HubEvent("ping", EmptyDict, NoPayload)}
NextProbe ==
    \/ Connections({"b1"})
    \/ HubSessions(Hubs)
    \/ HubInput(Hubs, ProbeEvents)
    \/ EventLoop

SpecProbe == Init /\ [][NextProbe]_vars

\* A token is configured; two browsers that authenticate or send something
\* else first, and then detect wake words, ping and stream audio; one hub
\* session.
InitToken == InitWith({"secret"}, {TRUE})
GateMessages ==
    {Object([type |-> "auth", token |-> "secret"]),
     Object([type |-> "auth", token |-> "wrong"]),
     Object([type |-> "wake_detected", wake_word |-> "hey"]),
     Object([type |-> "ping"]),
     Binary(<<7>>)}
GateControl ==
    {Object([type |-> "wake_detected", wake_word |-> "hey"]), Object([type |-> "ping"])}
NextGate ==
    \/ Connections(Browsers)
    \/ Authentication(Browsers, GateMessages)
    \/ Control(Browsers, GateControl)
    \/ FanOut(Browsers, {<<7>>})
    \/ HubSessions({"h1"})
    \/ EventLoop

SpecGate == InitToken /\ [][NextGate]_vars

\* Two browsers that both detect wake words and stream audio, two hub
\* sessions, and a WyomingServer whose callback is not set: registry changes
\* schedule no notification, and the fan-out loops never read the callback.
InitUnwired == InitWith({None}, {FALSE})
NextRace ==
    \/ Connections(Browsers)
    \/ Control(Browsers, WakeOnly)
    \/ FanOut(Browsers, {<<7>>})
    \/ HubSessions(Hubs)

SpecRace == InitUnwired /\ [][NextRace]_vars

\* An AudioBuffer of any configuration, a producer that adds audio in pieces
\* of any size, a consumer that takes chunks, and clear at any time.
InitBuffer ==
    /\ Servers({None}, {TRUE})
    /\ abuf \in {AudioBufferInit(r, d) : r \in BufferRates, d \in BufferDurations}
    /\ atrace = NoTrace
NextBuffer ==
    \/ \E k \in 1..MaxAdd : Add(k)
    \/ GetCall
    \/ GetResume
    \/ Clear

SpecBuffer == InitBuffer /\ [][NextBuffer]_vars

\* ------------------------------------------------------------ properties

\* What input n caused to be written to hub session h, and sent to browser b.
Written(h, n) == SelectSeq(hubOut[h], LAMBDA w : w.n = n)
Sent(b, src, n) == SelectSeq(wsOut[b], LAMBDA w : w.src = src /\ w.n = n)
EventsOf(ws) == [i \in 1..Len(ws) |-> ws[i].ev]
AllOk(ws) == \A i \in 1..Len(ws) : ws[i].ok
IsPrefix(s, t) == Len(s) <= Len(t) /\ \A i \in 1..Len(s) : s[i] = t[i]

\* The browsers whose latest message was wake_detected.
WakeCalls ==
    {b \in Browsers : last[b].n > 0 /\ ControlType(last[b].msg) = "wake_detected"}

\* The handshake of a wake word, as the hub is to see it.
Handshake ==
    << [type |-> "run-pipeline",
        data |-> [start_stage |-> "asr", end_stage |-> "tts", restart_on_end |-> FALSE],
        payload |-> << >>],
       [type |-> "audio-start",
        data |-> [rate |-> 16000, width |-> 2, channels |-> 1],
        payload |-> << >>] >>

\* C1: trigger_wake_word with no hub session registered writes no event to
\* anyone; with N >= 1 sessions registered and no write failing, each of the N
\* sessions is written exactly one RunPipeline (ASR to TTS, no restart) and then
\* exactly one AudioStart (16000 Hz, 2 bytes, 1 channel), and no other session
\* is written anything.
C1_WakeHandshake ==
    \A b \in WakeCalls :
        LET n == last[b].n
        IN  /\ last[b].snap = {} =>
                /\ bpc[b] # "writing"
                /\ \A h \in Hubs : Written(h, n) = << >>
            /\ ~last[b].failed =>
                /\ \A h \in Hubs \ last[b].snap : Written(h, n) = << >>
                /\ \A h \in last[b].snap :
                      /\ AllOk(Written(h, n))
                      /\ IF bpc[b] = "writing"
                         THEN IsPrefix(EventsOf(Written(h, n)), Handshake)
                         ELSE EventsOf(Written(h, n)) = Handshake

\* A wake word was handed to two hub sessions, and both got the handshake.
C1_Witness ==
    \E b \in WakeCalls :
        /\ Cardinality(last[b].snap) = 2
        /\ ~last[b].failed
        /\ bpc[b] = "loop"
        /\ \A h \in last[b].snap : Len(Written(h, last[b].n)) = 2

\* The browsers whose latest message was status_request.
StatusCalls ==
    {b \in Browsers : last[b].n > 0 /\ ControlType(last[b].msg) = "status_request"}

\* The status reply that tells of c registered browsers and of a registered
\* hub session, or of none.
StatusFrame(c, connected) ==
    [kind |-> "text",
     json |-> [type |-> "status", clients |-> c, ha_connected |-> connected,
               config |-> [wake_word |-> "hey"]]]

\* C2, as a state: the request was answered with one reply, to the requester
\* and to nobody else; it counts the browsers registered when the request was
\* processed, the requester among them, and tells whether a hub session was
\* registered then; the hub registry holds the sessions that have connected
\* and not yet disconnected.
C2_Replied ==
    /\ handlers = {h \in Hubs : hpc[h] \in {"run", "bridge"}}
    /\ \A b \in StatusCalls :
          LET reply == Sent(b, "in", last[b].n)
          IN  /\ Len(reply) = 1
              /\ reply[1].msg = StatusFrame(Cardinality(last[b].peers), last[b].snap # {})
              /\ b \in last[b].peers
              /\ reply[1].msg.json.clients >= 1
              /\ (\A h \in Hubs : hpc[h] = "new") => ~reply[1].msg.json.ha_connected
              /\ \A c \in Browsers \ {b} : Sent(c, "in", last[b].n) = << >>

\* C2, as a step: the step that processes a status_request of browser b sends
\* b the reply computed from the registries as they are in that step, and
\* sends nothing to any other browser.
C2_Step ==
    \A b \in Browsers :
        (last'[b] # last[b] /\ ControlType(last'[b].msg) = "status_request") =>
            /\ b \in clients
            /\ Len(wsOut'[b]) = Len(wsOut[b]) + 1
            /\ wsOut'[b][Len(wsOut'[b])].msg =
                  StatusFrame(Cardinality(clients),
                              \E h \in Hubs : hpc[h] \in {"run", "bridge"})
            /\ \A c \in Browsers \ {b} : wsOut'[c] = wsOut[c]

\* C2: every status_request processed for a registered browser produces exactly
\* one status reply, sent only to the requester, whose clients field is the
\* number of browsers registered at that time (at least 1) and whose
\* ha_connected field is true if and only if a hub session is registered at
\* that time: false before any hub session connects, true between a hub
\* session's connection and its disconnection.
C2_StatusReply == [](C2_Replied) /\ [][C2_Step]_vars

\* With two browsers registered and a hub session connected, a browser asked
\* for the status and was told so.
C2_Witness ==
    \E b \in StatusCalls :
        \E i \in 1..Len(wsOut[b]) :
            /\ wsOut[b][i].ok
            /\ wsOut[b][i].msg = StatusFrame(2, TRUE)

\* The broadcasts that hub session h's latest event caused.
Made(h) == SelectSeq(bcasts, LAMBDA c : c.src = "in" /\ c.n = last[h].n)

\* The translation table: the one frame a hub event of the table is to be
\* broadcast as.
Table(e) ==
    CASE e.type = "transcript" ->
            [kind |-> "text",
             json |-> [type |-> "voice_event", event_type |-> 4,
                       data |-> [text |-> e.data.text]]]
      [] e.type = "synthesize" ->
            [kind |-> "text",
             json |-> [type |-> "voice_event", event_type |-> 7,
                       data |-> [text |-> e.data.text]]]
      [] e.type = "audio-start" ->
            [kind |-> "text", json |-> [type |-> "config_audio", rate |-> e.data.rate]]
      [] e.type = "audio-stop" ->
            [kind |-> "text",
             json |-> [type |-> "voice_event", event_type |-> 2, data |-> EmptyDict]]
      [] e.type = "audio-chunk" ->
            [kind |-> "binary", bytes |-> e.payload]

\* The hub events the table has a row for.
InTable(e) ==
    \/ e.type \in {"transcript", "synthesize"} /\ "text" \in DOMAIN e.data
    \/ e.type = "audio-start" /\ "rate" \in DOMAIN e.data
    \/ e.type \in {"audio-stop", "audio-chunk"}

\* C3: a hub event of the translation table yields exactly one broadcast, of
\* the frame the table gives for it: transcript as voice_event 4 with the
\* text, synthesize as voice_event 7 with the text, audio-start as
\* config_audio with the rate, audio-stop as voice_event 2 with empty data,
\* audio-chunk as a binary frame of the unmodified payload; and only that
\* frame is sent to a browser for the event.
C3_Translation ==
    \A h \in Hubs :
        (last[h].n > 0 /\ InTable(hev[h])) =>
            /\ Len(Made(h)) = 1
            /\ Made(h)[1].msg = Table(hev[h])
            /\ \A b \in Browsers :
                  LET sent == Sent(b, "in", last[h].n)
                  IN  \A k \in 1..Len(sent) : sent[k].msg = Table(hev[h])

\* A browser was delivered the two bytes of an audio-chunk as a binary frame
\* and the hub session went on.
C3_Witness ==
    \E h \in Hubs, b \in Browsers :
        /\ hev[h].type = "audio-chunk"
        /\ hpc[h] = "run"
        /\ \E k \in 1..Len(wsOut[b]) :
              /\ wsOut[b][k].ok
              /\ wsOut[b][k].n = last[h].n
              /\ wsOut[b][k].msg = [kind |-> "binary", bytes |-> <<8, 9>>]

\* The sends of broadcast c to browser b that have not run yet.
Queued(c, b) ==
    {k \in 1..Len(ready) :
        /\ ready[k].kind = "send" /\ ready[k].src = c.src
        /\ ready[k].n = c.n /\ ready[k].to = b}

\* C7, as a state: whichever sends of a broadcast fail, every browser that was
\* registered when the broadcast started has exactly one send of the message,
\* run or still to run, and no other browser has any.
C7_EachOnce ==
    \A i \in 1..Len(bcasts) :
        LET c == bcasts[i]
        IN  \A b \in Browsers :
              LET sent == Sent(b, c.src, c.n)
              IN  /\ Cardinality(Queued(c, b)) + Len(sent) = IF b \in c.to THEN 1 ELSE 0
                  /\ \A k \in 1..Len(sent) : sent[k].msg = c.msg

\* C7, as a step: a step that starts a broadcast or runs one of its sends
\* leaves the browser registry as it is, and a hub session that waits for its
\* broadcast goes on when every send has settled, failed or not: its task ends
\* only if the played event it then writes cannot be written.
C7_Step ==
    /\ (bcasts' # bcasts \/ wsOut' # wsOut) => clients' = clients
    /\ \A h \in Hubs :
          (hpc[h] = "bridge" /\ hpc'[h] # "bridge") =>
              /\ ~Pending(h)
              /\ \/ hpc'[h] = "run"
                 \/ hpc'[h] = "done" /\ hev[h].type = "audio-stop" /\ ~hopen[h]

\* C7: in a broadcast to a non-empty registry, whatever subset of the sends
\* fails, every browser whose send does not fail is sent the message once, the
\* broadcast removes no browser from the registry, and the broadcast returns
\* to its caller.
C7_PartialFailure == [](C7_EachOnce) /\ [][C7_Step]_vars

\* A hub event was broadcast to two browsers, the send to one failed, the
\* other was delivered the frame, both are still registered and the hub
\* session went on.
C7_Witness ==
    \E h \in Hubs, b, c \in Browsers :
        /\ hpc[h] = "run"
        /\ Len(Made(h)) = 1
        /\ Made(h)[1].to = {b, c}
        /\ {b, c} \subseteq clients
        /\ Len(Sent(b, "in", last[h].n)) = 1
        /\ ~Sent(b, "in", last[h].n)[1].ok
        /\ Len(Sent(c, "in", last[h].n)) = 1
        /\ Sent(c, "in", last[h].n)[1].ok

\* C8: a broadcast made while the browser registry is empty sends nothing and
\* schedules no send, changes neither registry, and returns: the hub session
\* whose event was bridged goes on, and its task ends only if the played
\* event it then writes cannot be written.
C8_Step ==
    (Len(bcasts') > Len(bcasts) /\ bcasts'[Len(bcasts')].to = {}) =>
        /\ wsOut' = wsOut
        /\ clients' = clients
        /\ \A k \in 1..Len(ready') : ready'[k].kind = "send" =>
              \E j \in 1..Len(ready) : ready[j] = ready'[k]
        /\ bcasts'[Len(bcasts')].src = "task" =>
              /\ ready' = Tail(ready)
              /\ handlers' = handlers /\ hpc' = hpc
        /\ \A h \in Hubs :
              (bcasts'[Len(bcasts')].src = "in" /\ last'[h].n = bcasts'[Len(bcasts')].n) =>
                  \/ hpc'[h] = "run" /\ handlers' = handlers
                  \/ hpc'[h] = "done" /\ hev'[h].type = "audio-stop" /\ ~hopen'[h]

\* C8 as a property of every step.
C8_EmptyRegistry == [][C8_Step]_vars

\* A hub event was bridged while no browser was registered, and the hub
\* session is still registered and reading.
C8_Witness ==
    \E h \in Hubs :
        /\ hpc[h] = "run" /\ h \in handlers
        /\ hev[h].type = "transcript"
        /\ Len(Made(h)) = 1
        /\ Made(h)[1].to = {}
        /\ \A b \in Browsers : wsOut[b] = << >>

\* The first message is an auth message that carries exactly the token.
CorrectAuth(m, token) ==
    /\ m.form = "object"
    /\ "type" \in DOMAIN m.obj /\ m.obj.type = "auth"
    /\ "token" \in DOMAIN m.obj /\ m.obj.token = token

\* The auth_ok and auth_failed frames sent to browser b.
Frames(b, type) ==
    SelectSeq(wsOut[b], LAMBDA w : w.msg = [kind |-> "text", json |-> [type |-> type]])

\* The browsers whose authentication is decided, and the token is configured.
Decided == {b \in Browsers : auth[b].how # "none"}
TokenSet == auth_token \notin {"None", ""}

\* C4 as claimed: with a token configured, authenticate succeeds if and only
\* if the first message received in time is an auth message with exactly the
\* configured token.
C4_Original ==
    \A b \in Decided :
        TokenSet =>
            (auth[b].ok <=> (auth[b].how = "message" /\ CorrectAuth(auth[b].first, auth_token)))

\* C4, amended: authenticate succeeds for every session when no token is
\* configured; with a token configured it succeeds if and only if the first
\* message received in time is an auth message with exactly the configured
\* token and the send of auth_ok to the session does not fail; on success
\* exactly one auth_ok has been sent to the session, first of all frames and
\* before the session is registered, and only a session whose authentication
\* succeeded is registered.
C4_Authenticate ==
    /\ \A b \in Decided :
          /\ ~TokenSet => auth[b].ok /\ Frames(b, "auth_ok") = << >>
          /\ TokenSet =>
                /\ auth[b].ok <=>
                      /\ auth[b].how = "message"
                      /\ CorrectAuth(auth[b].first, auth_token)
                      /\ wsOut[b] # << >> /\ wsOut[b][1].ok
                /\ auth[b].ok =>
                      /\ Len(Frames(b, "auth_ok")) = 1
                      /\ wsOut[b][1].msg = [kind |-> "text", json |-> [type |-> "auth_ok"]]
                      /\ bpc[b] \notin {"failed", "rejected"}
                /\ ~auth[b].ok => bpc[b] \in {"failed", "rejected"}
    /\ \A b \in clients : b \in Decided /\ auth[b].ok
    /\ \A b \in Browsers : bpc[b] \in {"new", "auth", "authed"} => b \notin clients

\* With a token configured, a browser offered it, was sent auth_ok and was
\* then registered; it has since been answered a ping.
C4_Witness ==
    \E b \in clients :
        /\ TokenSet
        /\ CorrectAuth(auth[b].first, "secret")
        /\ Len(wsOut[b]) = 2
        /\ wsOut[b][1].msg.json.type = "auth_ok" /\ wsOut[b][1].ok
        /\ wsOut[b][2].msg.json.type = "pong"

\* The first message is an auth message that carries another token.
WrongAuth(m, token) ==
    /\ m.form = "object"
    /\ "type" \in DOMAIN m.obj /\ m.obj.type = "auth"
    /\ "token" \in DOMAIN m.obj /\ m.obj.token # token

\* C5, as a state: with a token configured, a session whose first message is
\* an auth message with a wrong token is sent auth_failed and nothing else, a
\* session that sent nothing before the timeout is sent nothing, and both are
\* outside the registry, waiting to be closed or closed with code 1008.
C5_Rejected ==
    \A b \in Decided :
        LET wrong == auth[b].how = "message" /\ WrongAuth(auth[b].first, auth_token)
            late == auth[b].how = "timeout"
        IN  (TokenSet /\ (wrong \/ late)) =>
                /\ wrong => /\ Len(wsOut[b]) = 1
                            /\ wsOut[b][1].msg = [kind |-> "text",
                                                  json |-> [type |-> "auth_failed"]]
                            /\ wsOut[b][1].ok = auth[b].usable
                /\ late => wsOut[b] = << >>
                /\ b \notin clients
                /\ bpc[b] \in {"failed", "rejected"}
                /\ bpc[b] = "rejected" => closeCode[b] = 1008 /\ ~bopen[b]
                /\ bpc[b] = "failed" => closeCode[b] = 0

\* C5, as a step: the only thing a session whose authentication failed does
\* next is to close the connection with code 1008, and it stays closed and
\* unregistered from then on.
C5_Step ==
    \A b \in Browsers :
        /\ (bpc[b] = "failed" /\ bpc'[b] # "failed") =>
              /\ bpc'[b] = "rejected" /\ closeCode'[b] = 1008 /\ ~bopen'[b]
              /\ wsOut'[b] = wsOut[b]
        /\ bpc[b] = "rejected" =>
              /\ bpc'[b] = "rejected" /\ closeCode'[b] = 1008
              /\ wsOut'[b] = wsOut[b] /\ b \notin clients'

\* C5: with a token configured, a session whose first message is an auth
\* message with a wrong token is sent auth_failed and is then closed with the
\* policy-violation code, a session that sends nothing before the timeout is
\* closed, and neither is ever added to the browser registry.
C5_WrongTokenOrTimeout == [](C5_Rejected) /\ [][C5_Step]_vars

\* One session was delivered auth_failed for a wrong token and closed with
\* 1008, another was closed with 1008 after the timeout.
C5_Witness ==
    \E b, c \in Browsers :
        /\ TokenSet
        /\ auth[b].how = "message" /\ WrongAuth(auth[b].first, auth_token)
        /\ wsOut[b] # << >> /\ wsOut[b][1].ok
        /\ bpc[b] = "rejected" /\ closeCode[b] = 1008
        /\ auth[c].how = "timeout"
        /\ bpc[c] = "rejected" /\ closeCode[c] = 1008

\* C6: with a token configured, every failed authentication whose channel is
\* still usable (the first message is no correct auth message, is malformed,
\* or does not arrive before the timeout) results in an auth_failed message
\* being sent to that session.
C6_AuthFailedSent ==
    \A b \in Decided :
        (TokenSet /\ ~auth[b].ok /\ auth[b].usable) => Len(Frames(b, "auth_failed")) >= 1

\* C9, as a step: a step that adds a hub session to the registry or removes one
\* schedules exactly one task, which broadcasts ha_status with connected true
\* if and only if a session is registered after the step; no other step
\* schedules a task.
C9_Step ==
    /\ handlers' # handlers =>
          /\ ntasks' = ntasks + 1
          /\ Len(ready') = Len(ready) + 1
          /\ SubSeq(ready', 1, Len(ready)) = ready
          /\ ready'[Len(ready')].kind = "task"
          /\ ready'[Len(ready')].n = ntasks'
          /\ ready'[Len(ready')].msg = [type |-> "ha_status", connected |-> handlers' # {}]
    /\ handlers' = handlers => ntasks' = ntasks

\* C9, as a state: the task of the first registration broadcasts connected
\* true, and every browser registered when a task runs is sent its message
\* once, as a JSON text frame.
C9_Delivery ==
    \A i \in 1..Len(bcasts) :
        LET c == bcasts[i]
        IN  c.src = "task" =>
              /\ c.msg.kind = "text"
              /\ c.msg.json.type = "ha_status"
              /\ c.n = 1 => c.msg.json.connected
              /\ \A b \in Browsers :
                    LET queued == {k \in 1..Len(ready) :
                                      /\ ready[k].kind = "send" /\ ready[k].src = "task"
                                      /\ ready[k].n = c.n /\ ready[k].to = b}
                        sent == Sent(b, "task", c.n)
                    IN  /\ Cardinality(queued) + Len(sent) = IF b \in c.to THEN 1 ELSE 0
                        /\ \A k \in 1..Len(sent) : sent[k].msg = c.msg

\* C9: every add and every remove of a hub session schedules exactly one
\* ha_status broadcast whose connected field tells whether a hub session is
\* registered after it, and the browsers registered when it runs are sent it.
C9_HaStatus == [](C9_Delivery) /\ [][C9_Step]_vars

\* A browser was told that the hub is connected and then that it is not.
C9_Witness ==
    \E b \in Browsers : \E i, j \in 1..Len(wsOut[b]) :
        /\ i < j
        /\ wsOut[b][i].ok /\ wsOut[b][j].ok
        /\ wsOut[b][i].src = "task" /\ wsOut[b][j].src = "task"
        /\ wsOut[b][i].msg.json = [type |-> "ha_status", connected |-> TRUE]
        /\ wsOut[b][j].msg.json = [type |-> "ha_status", connected |-> FALSE]

\* The played events written to hub session h for input n.
PlayedFor(h, n) ==
    SelectSeq(hubOut[h],
              LAMBDA w : w.n = n /\ w.ev = [type |-> "played", data |-> EmptyDict,
                                            payload |-> << >>])

\* C10: for every audio-stop event received from a hub session, exactly one
\* played event is written to that session, once the broadcast of the event
\* (if any) has returned, and none to any other session; whether or not a
\* browser is registered, a bridge callback is set, or a send of the broadcast
\* fails.  No other event is answered with played.
C10_Played ==
    \A h \in Hubs :
        last[h].n > 0 =>
            /\ \A g \in Hubs \ {h} : PlayedFor(g, last[h].n) = << >>
            /\ Len(PlayedFor(h, last[h].n)) =
                  IF hev[h].type = "audio-stop" /\ hpc[h] # "bridge" THEN 1 ELSE 0

\* An audio-stop was broadcast to a browser that had closed, the send failed,
\* and the hub session was written played all the same.
C10_Witness ==
    \E h \in Hubs, b \in Browsers :
        /\ hev[h].type = "audio-stop"
        /\ Len(Sent(b, "in", last[h].n)) = 1
        /\ ~Sent(b, "in", last[h].n)[1].ok
        /\ Len(PlayedFor(h, last[h].n)) = 1
        /\ PlayedFor(h, last[h].n)[1].ok

\* C11: the played acknowledgement is immediate: from the moment the hub
\* session's task has received an audio-stop until it has written played, the
\* task does not wait for any other party, so no send to a browser that has
\* not settled holds it up.
C11_NoSuspension ==
    \A h \in Hubs :
        (last[h].n > 0 /\ hev[h].type = "audio-stop" /\ PlayedFor(h, last[h].n) = << >>) =>
            ~(hpc[h] = "bridge" /\ \E s \in inflight : s.caller = h)

\* The browsers whose latest message was a binary frame.
AudioCalls == {b \in Browsers : last[b].n > 0 /\ last[b].msg.form = "binary"}

\* The audio-chunk event a hub session is to be written for forwarded bytes.
ChunkOf(bytes) ==
    [type |-> "audio-chunk",
     data |-> [rate |-> 16000, width |-> 2, channels |-> 1],
     payload |-> bytes]

\* A step in which a browser's task wrote an event to a hub session.
FanOutWrote ==
    \E h \in Hubs :
        /\ Len(hubOut'[h]) > Len(hubOut[h])
        /\ hubOut'[h][Len(hubOut'[h])].ev.type \in {"run-pipeline", "audio-start", "audio-chunk"}

\* C12, as a state: audio forwarded while no hub session is registered writes
\* nothing and returns at once; otherwise every session registered at the call
\* is written exactly one audio-chunk of 16000 Hz, 2 bytes, 1 channel with the
\* forwarded bytes, whether or not the write to another session failed, no
\* other session is written anything, and the browser's task goes on.
C12_Forwarded ==
    \A b \in AudioCalls :
        LET n == last[b].n
        IN  /\ bopen[b] => b \in clients /\ bpc[b] \in {"loop", "writing"}
            /\ last[b].snap = {} => bpc[b] # "writing"
            /\ \A h \in Hubs \ last[b].snap : Written(h, n) = << >>
            /\ \A h \in last[b].snap :
                  /\ Len(Written(h, n)) <= 1
                  /\ bpc[b] # "writing" => Len(Written(h, n)) = 1
                  /\ \A k \in 1..Len(Written(h, n)) :
                        Written(h, n)[k].ev = ChunkOf(last[b].msg.bytes)

\* C12: send_audio with no hub session registered writes nothing and raises
\* nothing; with hub sessions registered it writes one AudioChunk (16000, 2, 1)
\* with the forwarded bytes to every one of them, and a write that fails
\* neither prevents the writes to the other sessions nor changes the hub
\* registry.
C12_SendAudio == [](C12_Forwarded) /\ [][FanOutWrote => handlers' = handlers]_vars

\* A binary frame was forwarded to two hub sessions: the write to one failed,
\* the other was written the chunk, and both are still registered.
C12_Witness ==
    \E b \in AudioCalls : \E h, g \in last[b].snap :
        /\ bpc[b] = "loop"
        /\ {h, g} \subseteq handlers
        /\ Len(Written(h, last[b].n)) = 1 /\ ~Written(h, last[b].n)[1].ok
        /\ Len(Written(g, last[b].n)) = 1 /\ Written(g, last[b].n)[1].ok

\* C16, as a state: when trigger_wake_word has returned, every session
\* registered at the call was attempted, whatever happened to the others: it
\* was written RunPipeline and then AudioStart if its writes succeeded, and
\* only its own failed write cut its handshake short; the browser's task goes
\* on.
C16_Attempted ==
    \A b \in WakeCalls :
        LET n == last[b].n
        IN  /\ bopen[b] => b \in clients /\ bpc[b] \in {"loop", "writing"}
            /\ bpc[b] # "writing" =>
                  \A h \in last[b].snap :
                      LET w == Written(h, n)
                      IN  /\ Len(w) >= 1
                          /\ IsPrefix(EventsOf(w), Handshake)
                          /\ \A k \in 1..(Len(w) - 1) : w[k].ok
                          /\ w[Len(w)].ok => EventsOf(w) = Handshake

\* C16: in trigger_wake_word over several hub sessions, a write failure on one
\* session does not prevent the attempt on any remaining session (each is
\* still written RunPipeline then AudioStart), does not reach the browser task
\* that sent wake_detected, and adds or removes no session in the hub
\* registry.
C16_FailureIsolation ==
    [](C16_Attempted) /\ [][FanOutWrote => handlers' = handlers /\ clients' = clients]_vars

\* A wake word was handed to two hub sessions: the first write to one failed,
\* the other got the whole handshake, both are still registered and the
\* browser's task reads on.
C16_Witness ==
    \E b \in WakeCalls : \E h, g \in last[b].snap :
        /\ bpc[b] = "loop" /\ b \in clients
        /\ {h, g} \subseteq handlers
        /\ Len(Written(h, last[b].n)) = 1 /\ ~Written(h, last[b].n)[1].ok
        /\ EventsOf(Written(g, last[b].n)) = Handshake /\ AllOk(Written(g, last[b].n))

\* C13: browser binary frames reach the hub only through the AudioBuffer:
\* every audio-chunk event written to a hub session carries exactly chunk_size
\* bytes, whatever the sizes of the binary frames the browser sent.
C13_Rechunked ==
    \A h \in Hubs : \A k \in 1..Len(hubOut[h]) :
        hubOut[h][k].ev.type = "audio-chunk" =>
            Len(hubOut[h][k].ev.payload) = abuf.chunk_size

\* All the chunks of a sequence of chunks, joined in order.
RECURSIVE Joined(_)
Joined(chunks) == IF chunks = << >> THEN << >> ELSE Head(chunks) \o Joined(Tail(chunks))

\* The first n bytes ever added, and those from m+1 to n.
Input(m, n) == [i \in 1..(n - m) |-> m + i]

\* C14: for every input and every way of splitting it into successive add
\* calls, with no clear, the emitted chunks joined in emission order are the
\* input cut to the largest multiple of chunk_size, every emitted chunk has
\* exactly chunk_size bytes, and the rest of the input, fewer than chunk_size
\* bytes, is in the buffer in order.
C14_Rechunk ==
    ~atrace.cleared =>
        LET whole == (atrace.added \div abuf.chunk_size) * abuf.chunk_size
        IN  /\ Joined(atrace.emitted) = Input(0, whole)
            /\ \A k \in 1..Len(atrace.emitted) : Len(atrace.emitted[k]) = abuf.chunk_size
            /\ abuf.buffer = Input(whole, atrace.added)
            /\ Len(abuf.buffer) < abuf.chunk_size

\* Five bytes were added in two calls to a buffer with chunks of two bytes:
\* two chunks were emitted and one byte is left.
C14_Witness ==
    /\ ~atrace.cleared
    /\ abuf.chunk_size = 2
    /\ atrace.added = 5
    /\ atrace.emitted = << <<1, 2>>, <<3, 4>> >>
    /\ abuf.buffer = <<5>>

\* C15 as claimed: chunk_size is sample_rate * chunk_duration_ms / 1000 * 2
\* for every configured sample_rate and chunk_duration_ms.
C15_Original ==
    abuf.chunk_size * 1000 = abuf.sample_rate * abuf.chunk_duration_ms * 2

\* C15, amended, as a state: chunk_size is twice the whole number of samples
\* in chunk_duration_ms milliseconds at sample_rate, which is
\* sample_rate * chunk_duration_ms / 1000 * 2 when that number of samples is
\* whole, and 960 for 16000 Hz and 30 ms.
C15_WholeSamples ==
    LET product == abuf.sample_rate * abuf.chunk_duration_ms
    IN  /\ abuf.chunk_size % 2 = 0
        /\ abuf.chunk_size * 500 <= product
        /\ product < (abuf.chunk_size + 2) * 500
        /\ product % 1000 = 0 => abuf.chunk_size * 1000 = product * 2
        /\ (abuf.sample_rate = 16000 /\ abuf.chunk_duration_ms = 30) => abuf.chunk_size = 960

\* C15, amended: chunk_size is 2 * floor(sample_rate * chunk_duration_ms /
\* 1000), no operation of the buffer changes it, and it is 960 for 16000 Hz
\* and 30 ms.
C15_ChunkSize ==
    /\ [](C15_WholeSamples)
    /\ [][/\ abuf'.chunk_size = abuf.chunk_size
          /\ abuf'.sample_rate = abuf.sample_rate
          /\ abuf'.chunk_duration_ms = abuf.chunk_duration_ms]_vars

\* A buffer of 22050 Hz and 30 ms, whose 661.5 samples are cut to 661, has
\* been added to and cleared, and its chunk size still is 1322.
C15_Witness ==
    /\ abuf.sample_rate = 22050 /\ abuf.chunk_duration_ms = 30
    /\ abuf.chunk_size = 1322
    /\ atrace.added > 0 /\ atrace.cleared

\* s is t with some members left out.
RECURSIVE IsSubSeq(_, _)
IsSubSeq(s, t) ==
    IF s = << >> THEN TRUE
    ELSE IF t = << >> THEN FALSE
    ELSE IF Head(s) = Head(t) THEN IsSubSeq(Tail(s), Tail(t))
    ELSE IsSubSeq(s, Tail(t))

\* C19, as a state: what was returned and what is queued are, in this order,
\* chunks that were produced, in the order they were produced; without a clear
\* they are all of them; what is buffered or queued was added after the latest
\* clear, and right after a clear nothing is buffered or queued.
C19_Queue ==
    /\ IsSubSeq(atrace.got \o abuf.queue, atrace.emitted)
    /\ ~atrace.cleared => atrace.got \o abuf.queue = atrace.emitted
    /\ \A k \in 1..Len(abuf.buffer) : abuf.buffer[k] > atrace.cleared_at
    /\ \A k \in 1..Len(abuf.queue) : \A i \in 1..Len(abuf.queue[k]) :
          abuf.queue[k][i] > atrace.cleared_at
    /\ (atrace.cleared /\ atrace.added = atrace.cleared_at) =>
          abuf.buffer = << >> /\ abuf.queue = << >>
    /\ abuf.getter = "waiting" => abuf.queue = << >>

\* C19, as a step: get_chunk returns only when a chunk is queued, and then the
\* oldest one, which leaves the queue; a chunk leaves the queue otherwise only
\* when clear empties the buffer and the queue.
C19_Step ==
    /\ atrace'.got # atrace.got =>
          /\ abuf.queue # << >>
          /\ atrace'.got = Append(atrace.got, Head(abuf.queue))
          /\ abuf'.queue = Tail(abuf.queue)
    /\ (atrace'.got = atrace.got /\ ~IsPrefix(abuf.queue, abuf'.queue)) =>
          /\ abuf'.queue = << >> /\ abuf'.buffer = << >>
          /\ atrace'.cleared /\ atrace'.cleared_at = atrace.added

\* C19: get_chunk returns the queued chunks in the order they were produced,
\* each exactly once, suspending while none is queued and dropping none; after
\* clear() no byte is buffered and no chunk is queued, and the chunks produced
\* afterwards hold only bytes added after the clear.
C19_GetAndClear == [](C19_Queue) /\ [][C19_Step]_vars

\* A chunk was produced and returned; the buffer was then cleared with a byte
\* left in it, and the consumer was returned next a chunk of the two bytes
\* added after the clear.
C19_Witness ==
    /\ abuf.getter = "idle"
    /\ atrace.cleared /\ atrace.cleared_at = 3
    /\ atrace.got = << <<1, 2>>, <<4, 5>> >>

\* The event types that handle_event and handle_external_event name.
HandledTypes ==
    {"describe", "ping", "transcript", "synthesize", "audio-start", "audio-chunk",
     "audio-stop"}

\* C17, as a state: the latest event of a hub session, of a type that is not
\* handled, caused no broadcast, no frame to a browser and no write to a hub
\* session, and the session's task waits for nothing and has ended only if the
\* hub closed the connection.
C17_NothingDone ==
    \A h \in Hubs :
        (last[h].n > 0 /\ hev[h].type \notin HandledTypes) =>
            /\ Made(h) = << >>
            /\ \A b \in Browsers : Sent(b, "in", last[h].n) = << >>
            /\ \A g \in Hubs : \A k \in 1..Len(hubOut[g]) : hubOut[g][k].n # last[h].n
            /\ hpc[h] # "bridge"
            /\ hpc[h] = "done" => ~hopen[h]

\* C17, as a step: the step that receives such an event changes no output,
\* no registry and no scheduled work, and leaves the session reading.
C17_Step ==
    \A h \in Hubs :
        (last'[h] # last[h] /\ hev'[h].type \notin HandledTypes) =>
            /\ wsOut' = wsOut /\ hubOut' = hubOut
            /\ clients' = clients /\ handlers' = handlers
            /\ ready' = ready /\ bcasts' = bcasts /\ ntasks' = ntasks
            /\ inflight' = inflight
            /\ h \in handlers'
            /\ hpc'[h] = "run"

\* C17: a hub event whose type is none of Describe, Ping, transcript,
\* synthesize, audio-start, audio-chunk, audio-stop is ignored: no message is
\* sent to any browser, no event is written to any hub session, both
\* registries are unchanged, and the hub session keeps running and processes
\* its next event.
C17_UnknownIgnored == [](C17_NothingDone) /\ [][C17_Step]_vars

\* With a browser registered, a hub session sent voice-started and is reading
\* its next event, with nothing sent to the browser.
C17_Witness ==
    \E h \in Hubs :
        /\ hev[h].type = "voice-started" /\ last[h].n > 0
        /\ hpc[h] = "run" /\ hopen[h] /\ h \in handlers
        /\ last[h].peers # {}
        /\ \A b \in Browsers : wsOut[b] = << >>

\* The most tasks that registrations and removals of hub sessions create.
MaxTasks == 2 * Cardinality(Hubs)

\* The broadcast that task k made.
Notified(k) == \E i \in 1..Len(bcasts) : bcasts[i].src = "task" /\ bcasts[i].n = k

\* C18, as a state: a session whose task has ended is in no registry.
C18_Absent ==
    /\ \A b \in Browsers : bpc[b] = "done" => b \notin clients
    /\ \A h \in Hubs : hpc[h] = "done" => h \notin handlers

\* C18, as a step: the step that ends a hub session's task removes the session
\* and schedules a ha_status notification whose connected field tells whether
\* a hub session is left after the removal; the step that ends a browser's
\* task removes the browser; the task that runs a notification broadcasts the
\* message it was scheduled with.
C18_Step ==
    /\ \A h \in Hubs :
          (hpc[h] # "done" /\ hpc'[h] = "done") =>
              /\ h \in handlers /\ handlers' = handlers \ {h}
              /\ ntasks' = ntasks + 1
              /\ ready' # << >>
              /\ ready'[Len(ready')] =
                    [kind |-> "task", to |-> None,
                     msg |-> [type |-> "ha_status",
                              connected |-> Cardinality(handlers \ {h}) > 0],
                     caller |-> "task", src |-> "task", n |-> ntasks + 1]
    /\ \A b \in Browsers :
          (bpc[b] = "loop" /\ bpc'[b] = "done") => clients' = clients \ {b}
    /\ bcasts' # bcasts /\ bcasts'[Len(bcasts')].src = "task" =>
          /\ ready # << >> /\ Head(ready).kind = "task"
          /\ bcasts'[Len(bcasts')].n = Head(ready).n
          /\ bcasts'[Len(bcasts')].msg = [kind |-> "text", json |-> Head(ready).msg]
          /\ bcasts'[Len(bcasts')].to = clients

\* C18, as a progress property: a registered session whose peer has closed the
\* connection is eventually absent from its registry, and every notification
\* that was scheduled is eventually broadcast.
C18_Eventually ==
    /\ \A b \in Browsers : (b \in clients /\ ~bopen[b]) ~> (b \notin clients)
    /\ \A h \in Hubs : (h \in handlers /\ ~hopen[h]) ~> (h \notin handlers)
    /\ \A k \in 1..MaxTasks : (ntasks >= k) ~> Notified(k)

\* C18: whenever a registered session's task ends for any reason, the session
\* is eventually absent from its registry; for a hub session, the end
\* additionally produces a ha_status notification to the browsers whose
\* connected field reflects the hub session count after the removal.
C18_SessionEnd == [](C18_Absent) /\ [][C18_Step]_vars /\ C18_Eventually

\* Of two hub sessions one has ended and is no longer registered, and the
\* browser was sent the notification of its removal, which says connected
\* since the other session is left.
C18_Witness ==
    \E h, g \in Hubs :
        /\ hpc[h] = "done" /\ h \notin handlers
        /\ g \in handlers
        /\ ntasks = 3 /\ Notified(3)
        /\ \E b \in Browsers : \E i \in 1..Len(wsOut[b]) :
              /\ wsOut[b][i].src = "task" /\ wsOut[b][i].n = 3 /\ wsOut[b][i].ok
              /\ wsOut[b][i].msg.json = [type |-> "ha_status", connected |-> TRUE]

\* Under SpecOrder, the browser that hub write w was made on behalf of: audio
\* carries the browser's own bytes, and only b1 detects wake words.
OnBehalfOf(b, w) ==
    IF w.ev.type = "audio-chunk" THEN w.ev.payload = OwnAudio(b) ELSE b = "b1"

\* C20, as a state: on every hub session the writes made on behalf of one
\* browser are in the order in which its messages arrived, none is for a
\* message later than its latest, and a fan-out is in progress exactly while
\* the browser's task is in one.
C20_InOrder ==
    \A b \in Browsers :
        /\ bpc[b] = "writing" <=> biter[b] # NoIter
        /\ \A h \in Hubs : \A j \in 1..Len(hubOut[h]) :
              OnBehalfOf(b, hubOut[h][j]) =>
                  /\ hubOut[h][j].n <= last[b].n
                  /\ \A i \in 1..(j - 1) :
                        OnBehalfOf(b, hubOut[h][i]) => hubOut[h][i].n <= hubOut[h][j].n

\* C20, as a step: a browser's next message is processed only when the
\* handling of its previous one is over, messages are numbered as they arrive,
\* and a hub write made on behalf of a browser is for its latest message.
C20_Step ==
    /\ \A b \in Browsers :
          last'[b].n # last[b].n =>
              /\ bpc[b] = "loop" /\ biter[b] = NoIter
              /\ last'[b].n > last[b].n
              /\ \A c \in Browsers : last'[b].n > last[c].n
    /\ \A h \in Hubs :
          Len(hubOut'[h]) > Len(hubOut[h]) =>
              \A b \in Browsers :
                  OnBehalfOf(b, hubOut'[h][Len(hubOut'[h])]) =>
                      hubOut'[h][Len(hubOut'[h])].n = last'[b].n

\* C20: for any one browser session and any one hub session, the audio
\* payloads and wake-word handshakes that the hub session is written on behalf
\* of that browser appear in the order in which the browser's messages
\* arrived, and a browser's next message is not processed until the handling
\* of its previous one, all hub writes included, has finished; messages of
\* different browsers may interleave in any order.
C20_PerConnectionOrder == [](C20_InOrder) /\ [][C20_Step]_vars

\* The hub session was written the first half of b1's handshake, then the
\* audio of b2, which arrived later, then the second half of the handshake.
C20_Witness ==
    /\ Len(hubOut["h1"]) = 3
    /\ EventsOf(hubOut["h1"]) = <<RunPipelineEvent, AudioChunkEvent(OwnAudio("b2")), AudioStartEvent>>
    /\ hubOut["h1"][1].n = last["b1"].n
    /\ hubOut["h1"][2].n = last["b2"].n
    /\ hubOut["h1"][3].n = last["b1"].n
    /\ last["b1"].n < last["b2"].n

\* The hub session was written b1's handshake and then the audio b1 sent next.
C20_Sequential ==
    /\ EventsOf(hubOut["h1"]) = <<RunPipelineEvent, AudioStartEvent, AudioChunkEvent(OwnAudio("b1"))>>
    /\ hubOut["h1"][3].n > hubOut["h1"][1].n

\* A text message that is not parseable as a JSON object, or whose type is
\* none of the three that are handled.
Unrecognized(m) ==
    \/ m.form \in {"malformed", "array"}
    \/ /\ m.form = "object"
       /\ \/ "type" \notin DOMAIN m.obj
          \/ m.obj.type \notin {"wake_detected", "ping", "status_request"}

\* C21, as a state: the latest message of a browser, if unrecognized, caused
\* no frame to any browser and no write to any hub session, and the browser,
\* unless it closed the connection itself, is registered and read from.
C21_NothingDone ==
    \A b \in Browsers :
        (last[b].n > 0 /\ Unrecognized(last[b].msg)) =>
            /\ \A c \in Browsers : Sent(c, "in", last[b].n) = << >>
            /\ \A h \in Hubs : Written(h, last[b].n) = << >>
            /\ bpc[b] # "writing"
            /\ closeCode[b] = 0
            /\ bopen[b] => b \in clients /\ bpc[b] = "loop"

\* C21, as a step: the step that processes an unrecognized text message
\* changes no output, no registry and no scheduled work, does not close the
\* connection and leaves the session's task in its message loop.
C21_Step ==
    \A b \in Browsers :
        (last'[b] # last[b] /\ Unrecognized(last'[b].msg)) =>
            /\ wsOut' = wsOut /\ hubOut' = hubOut
            /\ clients' = clients /\ handlers' = handlers
            /\ ready' = ready /\ bcasts' = bcasts /\ ntasks' = ntasks
            /\ bopen' = bopen /\ closeCode' = closeCode
            /\ b \in clients'
            /\ bpc'[b] = "loop" /\ biter'[b] = NoIter

\* C21: a text message from a registered browser session that is not
\* parseable JSON, or whose type is not one of wake_detected, ping,
\* status_request, is a no-op: nothing is sent to the browser or to any hub
\* session, both registries are unchanged, the session is not closed, and the
\* session's later messages are still processed.
C21_StrayIgnored == [](C21_NothingDone) /\ [][C21_Step]_vars

\* The browser's first message was unrecognized and caused nothing; its second,
\* a ping, was answered with the only frame the browser was sent for a message.
C21_Witness ==
    /\ inputs = 2 /\ last["b1"].n = 2
    /\ bopen["b1"] /\ "b1" \in clients
    /\ \A h \in Hubs : hpc[h] = "new" \/ hopen[h]
    /\ ControlType(last["b1"].msg) = "ping"
    /\ Len(Sent("b1", "in", 2)) = 1 /\ Sent("b1", "in", 2)[1].ok
    /\ Sent("b1", "in", 1) = << >>

\* What answers a probe: Pong for Ping, the satellite's Info for Describe.
Answer(type) ==
    IF type = "ping"
    THEN [type |-> "pong", data |-> EmptyDict, payload |-> << >>]
    ELSE [type |-> "info",
          data |-> [name |-> "PWA Voice Assist", area |-> "Browser", version |-> "1.0.0"],
          payload |-> << >>]

\* C22, as a state: the latest event of a hub session, if a Ping or a
\* Describe, was answered with exactly one Pong or Info on that session and
\* with nothing on any other session or to any browser, and the session is
\* still registered unless the hub closed the connection.
C22_Answered ==
    \A h \in Hubs :
        (last[h].n > 0 /\ hev[h].type \in {"ping", "describe"}) =>
            /\ EventsOf(Written(h, last[h].n)) = <<Answer(hev[h].type)>>
            /\ \A g \in Hubs \ {h} : Written(g, last[h].n) = << >>
            /\ \A b \in Browsers : Sent(b, "in", last[h].n) = << >>
            /\ Made(h) = << >>
            /\ hpc[h] # "bridge"
            /\ hopen[h] => hpc[h] = "run" /\ h \in handlers

\* C22, as a step: the step that receives a Ping or a Describe writes the
\* answer to the session, and nothing else; when the write succeeds the
\* session goes on reading and no registry or scheduled work changes.
C22_Step ==
    \A h \in Hubs :
        (last'[h] # last[h] /\ hev'[h].type \in {"ping", "describe"}) =>
            /\ Len(hubOut'[h]) = Len(hubOut[h]) + 1
            /\ SubSeq(hubOut'[h], 1, Len(hubOut[h])) = hubOut[h]
            /\ hubOut'[h][Len(hubOut'[h])].ev = Answer(hev'[h].type)
            /\ hubOut'[h][Len(hubOut'[h])].n = last'[h].n
            /\ \A g \in Hubs \ {h} : hubOut'[g] = hubOut[g]
            /\ wsOut' = wsOut /\ bcasts' = bcasts /\ clients' = clients
            /\ hubOut'[h][Len(hubOut'[h])].ok =>
                  /\ hpc'[h] = "run" /\ handlers' = handlers
                  /\ ready' = ready /\ ntasks' = ntasks

\* C22: when a hub session's task processes a Ping it writes exactly one Pong
\* to that same session as its next action, and when it processes a Describe
\* it writes exactly one Info to that same session; neither produces any
\* message to any browser, and neither ends the session.
C22_Probes == [](C22_Answered) /\ [][C22_Step]_vars

\* With a browser registered, one hub session was answered a Describe with
\* Info and then a Ping with Pong, and is still registered and reading.
C22_Witness ==
    \E h \in Hubs :
        /\ hpc[h] = "run" /\ hopen[h] /\ h \in handlers
        /\ clients # {}
        /\ Len(hubOut[h]) = 2
        /\ hubOut[h][1].ev.type = "info" /\ hubOut[h][1].ok
        /\ hubOut[h][2].ev.type = "pong" /\ hubOut[h][2].ok
        /\ \A b \in Browsers : \A i \in 1..Len(wsOut[b]) : wsOut[b][i].src = "task"

\* C23, as a state: with a token configured every registered browser's first
\* message was the auth message with the token; a browser that has not
\* authenticated is in no broadcast, has no send scheduled, was delivered
\* nothing but auth_failed, and none of its messages was handled.
C23_Gate ==
    TokenSet =>
        /\ \A b \in clients :
              /\ auth[b].ok /\ auth[b].how = "message"
              /\ CorrectAuth(auth[b].first, auth_token)
        /\ \A b \in Browsers :
              ~auth[b].ok =>
                  /\ b \notin clients
                  /\ last[b].n = 0 /\ biter[b] = NoIter
                  /\ \A i \in 1..Len(bcasts) : b \notin bcasts[i].to
                  /\ \A i \in 1..Len(ready) : ready[i].to # b
                  /\ \A i \in 1..Len(wsOut[b]) :
                        /\ wsOut[b][i].src = "in"
                        /\ wsOut[b][i].msg.kind = "text"
                        /\ wsOut[b][i].msg.json.type \in {"auth_ok", "auth_failed"}
                        /\ wsOut[b][i].msg.json.type = "auth_ok" => ~wsOut[b][i].ok

\* C23, as a step: with a token configured every write to a hub session is
\* made for the latest message of a registered, authenticated browser, and no
\* step handles a message of a browser that has not authenticated.
C23_Step ==
    TokenSet =>
        /\ \A h \in Hubs :
              Len(hubOut'[h]) > Len(hubOut[h]) =>
                  \E b \in clients :
                      /\ auth[b].ok
                      /\ hubOut'[h][Len(hubOut'[h])].n = last'[b].n
        /\ \A b \in Browsers : last'[b] # last[b] => auth[b].ok /\ b \in clients

\* C23: with a token configured, in every reachable state every session in
\* the browser registry has completed authentication successfully;
\* consequently a session that has not authenticated never receives a
\* broadcast, never gets a pong or status reply, and none of its messages
\* causes a write to a hub session.
C23_AuthenticatedOnly == [](C23_Gate) /\ [][C23_Step]_vars

\* One browser authenticated and was delivered the ha_status broadcast; the
\* other sent wake_detected first, was refused, and no hub session was written
\* anything.
C23_Witness ==
    /\ TokenSet
    /\ auth["b1"].ok /\ "b1" \in clients
    /\ \E i \in 1..Len(wsOut["b1"]) : wsOut["b1"][i].src = "task" /\ wsOut["b1"][i].ok
    /\ auth["b2"].how = "message" /\ ~auth["b2"].ok
    /\ auth["b2"].first.form = "object" /\ auth["b2"].first.obj.type = "wake_detected"
    /\ "h1" \in handlers /\ hubOut["h1"] = << >>

\* The ha_status frames sent to browser b, in the order they were sent.
StatusSent(b) == SelectSeq(wsOut[b], LAMBDA w : w.src = "task")

\* Every notification that was scheduled has run and its sends have settled.
Settled ==
    /\ ready = << >> /\ inflight = {}
    /\ \A k \in 1..ntasks : \E i \in 1..Len(bcasts) : bcasts[i].src = "task" /\ bcasts[i].n = k

\* Browser b was registered when each notification was broadcast.
Throughout(b) ==
    /\ ntasks > 0
    /\ \A i \in 1..Len(bcasts) : bcasts[i].src = "task" => b \in bcasts[i].to

\* C24: ha_status notifications are delivered to each browser in the order of
\* the registry changes that caused them; after any sequence of hub session
\* connects and disconnects, once every scheduled notification has run to
\* completion, the last ha_status message received by a browser that stayed
\* registered throughout has connected = true if and only if at least one hub
\* session is registered.
C24_StatusOrder ==
    \A b \in Browsers :
        /\ \A i, j \in 1..Len(StatusSent(b)) :
              i < j => StatusSent(b)[i].n < StatusSent(b)[j].n
        /\ (Settled /\ Throughout(b) /\ b \in clients /\ AllOk(StatusSent(b))) =>
              /\ Len(StatusSent(b)) = ntasks
              /\ StatusSent(b)[ntasks].msg.json.type = "ha_status"
              /\ StatusSent(b)[ntasks].msg.json.connected <=> handlers # {}

\* Two hub sessions connected and both disconnected; the browser, registered
\* all the time, received four notifications, the last of which says that no
\* hub session is connected.
C24_Witness ==
    \E b \in Browsers :
        /\ Settled /\ Throughout(b) /\ b \in clients /\ AllOk(StatusSent(b))
        /\ ntasks = 4 /\ handlers = {}
        /\ [i \in 1..4 |-> StatusSent(b)[i].msg.json.connected] = <<TRUE, TRUE, TRUE, FALSE>>

\* The handshake of one trigger_wake_word call, as written to one session.
HandshakeEvents ==
    << [type |-> "run-pipeline",
        data |-> [start_stage |-> "asr", end_stage |-> "tts", restart_on_end |-> FALSE],
        payload |-> << >>],
       [type |-> "audio-start",
        data |-> [rate |-> 16000, width |-> 2, channels |-> 1],
        payload |-> << >>] >>

\* The inputs that are wake words: those that a run-pipeline was written for.
Triggers ==
    UNION {{hubOut[h][k].n : k \in {j \in 1..Len(hubOut[h]) :
                                        hubOut[h][j].ev.type = "run-pipeline"}} :
           h \in Hubs}

\* Session h has been written the first half of call n's handshake only.
HalfWritten(h, n) ==
    /\ Len(Written(h, n)) = 1
    /\ Written(h, n)[1].ev = HandshakeEvents[1]
    /\ Written(h, n)[1].ok

\* C25 as claimed: on every hub session, nothing is written between the
\* RunPipeline and the AudioStart of one trigger_wake_word call.
C25_Atomic ==
    \A h \in Hubs : \A i, j \in 1..Len(hubOut[h]) :
        (/\ i < j
         /\ hubOut[h][i].n = hubOut[h][j].n
         /\ hubOut[h][i].ev.type = "run-pipeline"
         /\ hubOut[h][j].ev.type = "audio-start") => j = i + 1

\* C25, amended, as a state: what a call wrote to a session is RunPipeline and
\* then AudioStart, the second only after the first succeeded, and nothing
\* else; the call is between the two on one session at most, the one its loop
\* is at.
C25_Ordered ==
    \A n \in Triggers :
        /\ \A h \in Hubs :
              /\ IsPrefix(EventsOf(Written(h, n)), HandshakeEvents)
              /\ Len(Written(h, n)) = 2 => Written(h, n)[1].ok
        /\ \A h, g \in Hubs : (HalfWritten(h, n) /\ HalfWritten(g, n)) => h = g
        /\ \A h \in Hubs :
              HalfWritten(h, n) =>
                  \E b \in Browsers :
                      last[b].n = n /\ bpc[b] = "writing" /\ biter[b].cur = h

\* C25, amended, as a step: a write to a session that another call has half
\* written is made by the task of another browser, for that browser's latest
\* message.
C25_Step ==
    \A h \in Hubs : \A n \in Triggers :
        (/\ HalfWritten(h, n)
         /\ Len(hubOut'[h]) > Len(hubOut[h])
         /\ hubOut'[h][Len(hubOut'[h])].n # n) =>
            \E b, c \in Browsers :
                /\ b # c
                /\ last[b].n = n /\ last'[b] = last[b] /\ biter'[b] = biter[b]
                /\ last'[c].n = hubOut'[h][Len(hubOut'[h])].n

\* C25, amended: for every trigger_wake_word call and every hub session it
\* writes to, the call writes RunPipeline and then AudioStart to that session
\* and nothing else, before it writes to its next session; what is written to
\* that session between the two is written on behalf of another browser.
C25_HandshakeOrder == [](C25_Ordered) /\ [][C25_Step]_vars

\* Two browsers triggered concurrently: a hub session was written RunPipeline
\* of the first, RunPipeline of the second, then the two AudioStart.
C25_Witness ==
    \E h \in Hubs :
        /\ Len(hubOut[h]) = 4
        /\ [i \in 1..4 |-> hubOut[h][i].ev.type] =
              <<"run-pipeline", "run-pipeline", "audio-start", "audio-start">>
        /\ hubOut[h][1].n = hubOut[h][3].n
        /\ hubOut[h][2].n = hubOut[h][4].n
        /\ hubOut[h][1].n # hubOut[h][2].n

\* C26: every AudioChunk event written to a hub session is preceded by an
\* AudioStart event written to that same session, also when the session
\* connected after the wake word was triggered or when the audio comes from a
\* browser that never sent wake_detected.
C26_StartFirst ==
    \A h \in Hubs : \A j \in 1..Len(hubOut[h]) :
        hubOut[h][j].ev.type = "audio-chunk" =>
            \E i \in 1..(j - 1) : hubOut[h][i].ev.type = "audio-start"

====
